---- MODULE Spec2Model ----
(***************************************************************************)
(* TRTS simulator core (operation_pretzel): the 11-microtick simulation    *)
(* loop of simulate.c, the engine step of engine.c, the psi transform of   *)
(* psi.c, the koppa accrual of analysis_utils.c (koppa.c copy) and the     *)
(* rational layer of rational.c.                                           *)
(*                                                                         *)
(* A rational (mpq_t) is a pair <<numerator, denominator>>.  GMP integers  *)
(* are unbounded; the runs explored here stay inside the integer range of  *)
(* TLC, where an overflow is an evaluation error and never a wrap: the     *)
(* guards built on MaxMag and MaxAmpMag keep the explored values small.    *)
(***************************************************************************)
EXTENDS Integers, Sequences, FiniteSets, TLC

VARIABLES config, state, pc, outputs, tick, microtick, obs, nObs, eventsRows, valuesRows,
          observerCalls, loc

vars == <<config, state, pc, outputs, tick, microtick, obs, nObs, eventsRows, valuesRows,
          observerCalls, loc>>

(***************************************************************************)
(* Bounds of the exploration.                                              *)
(***************************************************************************)
\* largest Config.ticks explored
MaxTicks == 2
\* an E or M microtick is explored only while every component of upsilon,
\* beta and koppa is at most MaxMag in magnitude
MaxMag == 120
\* an M microtick whose psi is amplified (strength above 1) is explored only
\* while these components are at most MaxAmpMag in magnitude
MaxAmpMag == 6

(***************************************************************************)
(* Integer helpers (GMP mpz).                                              *)
(***************************************************************************)
Abs(n) == IF n < 0 THEN -n ELSE n

RECURSIVE GCD(_, _)
GCD(a, b) == IF b = 0 THEN a ELSE GCD(b, a % b)

Num(r) == r[1]
Den(r) == r[2]

\* mpq_canonicalize: positive denominator, no common factor, 0 is 0/1
mpq_canonicalize(r) ==
    LET n == IF Den(r) < 0 THEN -Num(r) ELSE Num(r)
        d == Abs(Den(r))
        g == GCD(Abs(n), d)
    IN  <<n \div g, d \div g>>

\* mpq_add (GMP mpq/aors.c): cross-multiplication, with the common factor of
\* the denominators taken out first; the result has the value of the sum
\* and is canonical when both operands are.
mpq_add(a, b) ==
    LET g == GCD(Abs(Den(a)), Abs(Den(b)))
    IN  IF g = 1
        THEN <<Num(a) * Den(b) + Num(b) * Den(a), Den(a) * Den(b)>>
        ELSE LET tmp2 == Den(a) \div g
                 t    == Num(a) * (Den(b) \div g) + Num(b) * tmp2
                 g2   == GCD(Abs(t), g)
             IN  IF g2 = 1 THEN <<t, Den(b) * tmp2>>
                 ELSE <<t \div g2, (Den(b) \div g2) * tmp2>>

\* mpq_cmp(a, b) > 0 and < 0, denominators positive
mpq_gt(a, b) == Num(a) * Den(b) > Num(b) * Den(a)
mpq_lt(a, b) == Num(a) * Den(b) < Num(b) * Den(a)

(***************************************************************************)
(* rational.c: the rational layer linked by the engine.                    *)
(***************************************************************************)
rational_set_si(n, d) == mpq_canonicalize(<<n, d>>)

rational_add(a, b) == mpq_canonicalize(mpq_add(a, b))

rational_mul(a, b) == mpq_canonicalize(<<Num(a) * Num(b), Den(a) * Den(b)>>)

rational_div(a, b) == mpq_canonicalize(<<Num(a) * Den(b), Den(a) * Num(b)>>)

rational_is_zero(a) == Num(a) = 0

(***************************************************************************)
(* Functions of the strict rational header (unnamed/part_017) whose        *)
(* bodies are not among the sources; taken from the specification, 4.1:    *)
(* raw components, sign in the numerator, no reduction.                    *)
(***************************************************************************)
rational_set_components(n, d) == IF d < 0 THEN <<-n, -d>> ELSE <<n, d>>

rational_negate(a) == <<-Num(a), Den(a)>>

rational_abs_num(a) == Abs(Num(a))

rational_delta(cur, prev) == <<Num(cur) * Den(prev) - Num(prev) * Den(cur), Den(cur) * Den(prev)>>

\* a - floor(a/b) * b on raw components; a no-op when b is zero
rational_mod(a, b) ==
    IF Num(b) = 0 THEN a
    ELSE LET qn == Num(a) * Den(b)
             qd == Den(a) * Num(b)
             q  == IF qd < 0 THEN (-qn) \div (-qd) ELSE qn \div qd
         IN  <<Num(a) * Den(b) - q * Num(b) * Den(a), Den(a) * Den(b)>>

(***************************************************************************)
(* Number-theoretic predicates (simulate.c, psi.c).                        *)
(***************************************************************************)
RECURSIVE HasDivisorFrom(_, _)
HasDivisorFrom(n, lo) ==
    IF lo > n \div lo THEN FALSE
    ELSE IF \E d \in lo..(lo + 63) : d <= n \div d /\ n % d = 0 THEN TRUE
    ELSE HasDivisorFrom(n, lo + 64)

\* mpz_probab_prime_p on a magnitude: exact on the range explored
IsPrime(n) == n >= 2 /\ ~HasDivisorFrom(n, 2)

mpz_is_prime_signed(v) == v # 0 /\ Abs(v) > 1 /\ IsPrime(Abs(v))

RECURSIVE IsqrtFrom(_, _, _)
IsqrtFrom(n, lo, hi) ==
    IF lo >= hi THEN lo
    ELSE LET mid == (lo + hi + 1) \div 2
         IN  IF mid <= n \div mid THEN IsqrtFrom(n, mid, hi) ELSE IsqrtFrom(n, lo, mid - 1)

mpz_is_square(n) ==
    IF n < 0 THEN FALSE
    ELSE LET r == IsqrtFrom(n, 0, IF n < 46340 THEN n ELSE 46340) IN r * r = n

mpz_is_fibonacci(n) ==
    LET five_nsq == 5 * (Abs(n) * Abs(n))
    IN  mpz_is_square(five_nsq + 4) \/ mpz_is_square(five_nsq - 4)

\* r^e, or n + 1 as soon as the power exceeds n
RECURSIVE PowUpTo(_, _, _)
PowUpTo(r, e, n) ==
    IF e = 0 THEN 1
    ELSE LET p == PowUpTo(r, e - 1, n)
         IN  IF p > n \div r THEN n + 1 ELSE p * r

\* mpz_root: the truncated exp-th root of n > 0
RECURSIVE RootFrom(_, _, _, _)
RootFrom(n, exp, lo, hi) ==
    IF lo >= hi THEN lo
    ELSE LET mid == (lo + hi + 1) \div 2
         IN  IF PowUpTo(mid, exp, n) <= n THEN RootFrom(n, exp, mid, hi)
             ELSE RootFrom(n, exp, lo, mid - 1)

\* a perfect-power test that looks at the magnitude of a negative value
mpz_is_perfect_power_abs(n) ==
    IF n = 0 THEN FALSE
    ELSE \E exp \in 2..64 :
            LET root == RootFrom(Abs(n), exp, 1, IF Abs(n) < 46340 THEN Abs(n) ELSE 46340)
            IN  root > 0 /\ PowUpTo(root, exp, Abs(n)) = Abs(n)

mpz_is_perfect_power(n) ==
    IF n <= 0 THEN FALSE
    ELSE \E exp \in 2..64 :
            LET root == RootFrom(n, exp, 1, IF n < 46340 THEN n ELSE 46340)
            IN  root > 0 /\ PowUpTo(root, exp, n) = n

numerator_is_prime(v) == rational_abs_num(v) >= 2 /\ IsPrime(rational_abs_num(v))

mpq_has_pattern_component(cfg, value) ==
    LET num == Num(value)
        den == Den(value)
        num_prime == mpz_is_prime_signed(num)
        den_prime == mpz_is_prime_signed(den)
    IN  \/ num_prime \/ den_prime
        \/ /\ cfg.enable_twin_prime_trigger
           /\ num_prime /\ den_prime
           /\ (num - den = 2 \/ num - den = -2)
        \/ /\ cfg.enable_fibonacci_trigger
           /\ (mpz_is_fibonacci(num) \/ mpz_is_fibonacci(den))
        \/ /\ cfg.enable_perfect_power_trigger
           /\ (mpz_is_perfect_power(num) \/ mpz_is_perfect_power(den))

FIB_TICKS == {5, 13, 89, 233, 1597, 4181, 10946, 28657, 75025, 196418,
              514229, 1346269, 3524578, 9227465}

is_fibonacci_tick(t) == t \in FIB_TICKS

(***************************************************************************)
(* engine.c                                                                *)
(***************************************************************************)
convert_engine_mode(mode) ==
    CASE mode = "ADD" -> "ADD"
      [] mode = "MULTI" -> "MULTI"
      [] mode = "SLIDE" -> "SLIDE"
      [] OTHER -> "ADD"

\* <<ups_mode, beta_mode>> after the asymmetric cascade
apply_asymmetric_modes(cfg, mt, modes) ==
    IF ~cfg.enable_asymmetric_cascade THEN modes
    ELSE CASE mt = 1 -> <<"MULTI", "ADD">>
           [] mt = 4 -> <<"ADD", "SLIDE">>
           [] mt = 7 -> <<"SLIDE", "MULTI">>
           [] mt = 10 -> <<"ADD", "ADD">>
           [] OTHER -> modes

apply_stack_depth_mode(cfg, s, base_mode) ==
    IF ~cfg.enable_stack_depth_modes THEN base_mode
    ELSE LET depth == s.koppa_stack_size
         IN  IF depth <= 1 THEN "ADD"
             ELSE IF depth <= 3 THEN "MULTI"
             ELSE IF depth = 4 THEN "SLIDE"
             ELSE "ADD"

apply_koppa_gate(cfg, s, base_mode) ==
    IF ~cfg.enable_koppa_gated_engine THEN base_mode
    ELSE LET magnitude == rational_abs_num(s.koppa)
         IN  IF magnitude < 10 THEN "SLIDE"
             ELSE IF magnitude < 100 THEN "MULTI"
             ELSE "ADD"

\* an apply_track_mode whose SLIDE divides by koppa without the zero test
apply_track_mode_unguarded(mode, result, current, counterpart, koppa) ==
    CASE mode = "ADD" ->
            [ok |-> TRUE, result |-> rational_add(rational_add(current, counterpart), koppa)]
      [] mode = "MULTI" ->
            [ok |-> TRUE, result |-> rational_mul(current, rational_add(counterpart, koppa))]
      [] mode = "SLIDE" ->
            [ok |-> TRUE,
             result |-> <<Num(current) * Den(counterpart) * Den(koppa)
                              + Num(counterpart) * Den(current) * Den(koppa),
                          Den(current) * Den(counterpart) * Num(koppa)>>]

\* [ok, result]; result keeps its old value when the mode fails
apply_track_mode(mode, result, current, counterpart, koppa) ==
    CASE mode = "ADD" ->
            [ok |-> TRUE, result |-> rational_add(rational_add(current, counterpart), koppa)]
      [] mode = "MULTI" ->
            [ok |-> TRUE, result |-> rational_mul(current, rational_add(counterpart, koppa))]
      [] mode = "SLIDE" ->
            IF rational_is_zero(koppa) THEN [ok |-> FALSE, result |-> result]
            ELSE [ok |-> TRUE, result |-> rational_div(rational_add(current, counterpart), koppa)]

\* an ALTERNATE sign flip that negates on the steps entered with polarity true
apply_sign_flip_on_true(cfg, s, upsilon, beta) ==
    IF ~cfg.enable_sign_flip \/ cfg.sign_flip_mode = "NONE"
    THEN [polarity |-> FALSE, upsilon |-> upsilon, beta |-> beta]
    ELSE LET flip_now == CASE cfg.sign_flip_mode = "ALWAYS" -> TRUE
                           [] cfg.sign_flip_mode = "ALTERNATE" -> s.sign_flip_polarity
                           [] OTHER -> FALSE
         IN  [polarity |-> IF cfg.sign_flip_mode = "ALWAYS" THEN TRUE
                           ELSE ~s.sign_flip_polarity,
              upsilon  |-> IF flip_now THEN rational_negate(upsilon) ELSE upsilon,
              beta     |-> IF flip_now THEN rational_negate(beta) ELSE beta]

\* [polarity, upsilon, beta]: the new polarity and the (maybe negated) pair
apply_sign_flip(cfg, s, upsilon, beta) ==
    IF ~cfg.enable_sign_flip \/ cfg.sign_flip_mode = "NONE"
    THEN [polarity |-> FALSE, upsilon |-> upsilon, beta |-> beta]
    ELSE LET flip_now == CASE cfg.sign_flip_mode = "ALWAYS" -> TRUE
                           [] cfg.sign_flip_mode = "ALTERNATE" -> ~s.sign_flip_polarity
                           [] OTHER -> FALSE
         IN  [polarity |-> IF cfg.sign_flip_mode = "ALWAYS" THEN TRUE ELSE flip_now,
              upsilon  |-> IF flip_now THEN rational_negate(upsilon) ELSE upsilon,
              beta     |-> IF flip_now THEN rational_negate(beta) ELSE beta]

update_triangle(cfg, s) ==
    IF ~cfg.enable_epsilon_phi_triangle THEN s
    ELSE [s EXCEPT
            !.triangle_phi_over_epsilon =
                IF ~rational_is_zero(s.epsilon) THEN rational_div(s.phi, s.epsilon)
                ELSE rational_set_si(0, 1),
            !.triangle_prev_over_phi =
                IF ~rational_is_zero(s.phi) THEN rational_div(s.previous_upsilon, s.phi)
                ELSE rational_set_si(0, 1),
            !.triangle_epsilon_over_prev =
                IF ~rational_is_zero(s.previous_upsilon)
                THEN rational_div(s.epsilon, s.previous_upsilon)
                ELSE rational_set_si(0, 1)]

\* <<new_upsilon, new_beta>> after the delta-cross adjustment
apply_delta_cross(cfg, s, new_upsilon, new_beta) ==
    IF ~cfg.enable_delta_cross_propagation THEN <<new_upsilon, new_beta>>
    ELSE LET u1 == rational_add(new_upsilon, s.delta_beta)
             b1 == rational_add(new_beta, s.delta_upsilon)
         IN  IF cfg.enable_delta_koppa_offset
             THEN <<rational_add(u1, s.koppa), rational_add(b1, s.koppa)>>
             ELSE <<u1, b1>>

apply_modular_wrap(cfg, s) ==
    IF ~cfg.enable_modular_wrap THEN s
    ELSE IF rational_abs_num(s.koppa) > cfg.koppa_wrap_threshold
         THEN [s EXCEPT !.koppa = rational_mod(s.koppa, s.beta)]
         ELSE s

\* track modes whose asymmetric cascade is applied last, over the stack
\* depth and the koppa gate
track_modes_cascade_last(cfg, s, mt) ==
    LET base_ups  == IF cfg.dual_track_mode THEN cfg.engine_upsilon
                     ELSE convert_engine_mode(cfg.engine_mode)
        base_beta == IF cfg.dual_track_mode THEN cfg.engine_beta ELSE base_ups
    IN  apply_asymmetric_modes(cfg, mt,
            <<apply_koppa_gate(cfg, s, apply_stack_depth_mode(cfg, s, base_ups)),
              apply_koppa_gate(cfg, s, apply_stack_depth_mode(cfg, s, base_beta))>>)

\* 241-249: <<ups_mode, beta_mode>> of the step
track_modes(cfg, s, mt) ==
    LET base_ups  == IF cfg.dual_track_mode THEN cfg.engine_upsilon
                     ELSE convert_engine_mode(cfg.engine_mode)
        base_beta == IF cfg.dual_track_mode THEN cfg.engine_beta ELSE base_ups
        casc      == apply_asymmetric_modes(cfg, mt, <<base_ups, base_beta>>)
    IN  <<apply_koppa_gate(cfg, s, apply_stack_depth_mode(cfg, s, casc[1])),
          apply_koppa_gate(cfg, s, apply_stack_depth_mode(cfg, s, casc[2]))>>

\* a delta-add path that gives way to the koppa gate
delta_add_path_unless_gated(cfg) ==
    ~cfg.dual_track_mode /\ cfg.engine_mode = "DELTA_ADD" /\ ~cfg.enable_koppa_gated_engine

\* 258: use_delta_add
delta_add_path(cfg) == ~cfg.dual_track_mode /\ cfg.engine_mode = "DELTA_ADD"

\* a beta track that is handed the upsilon the step has just computed
beta_counterpart_new(s, new_upsilon) == new_upsilon

\* 269: the counterpart of the beta track is state->upsilon, which the
\* step has not yet overwritten
beta_counterpart(s, new_upsilon) == s.upsilon

\* [state, ok]: the State after the call and the returned success flag
engine_step(cfg, s, mt) ==
    LET use_delta_add == delta_add_path(cfg)
        \* 279-289: the new pair is committed on success only
        commit(s4, success, new_upsilon, new_beta) ==
            IF success
            THEN [ok |-> TRUE,
                  state |-> [s4 EXCEPT !.upsilon = new_upsilon,
                                       !.beta = new_beta,
                                       !.dual_engine_last_step = cfg.dual_track_mode,
                                       !.delta_upsilon = rational_delta(new_upsilon, s.upsilon),
                                       !.delta_beta = rational_delta(new_beta, s.beta),
                                       !.previous_upsilon = s.upsilon,
                                       !.previous_beta = s.beta]]
            ELSE [ok |-> FALSE, state |-> [s4 EXCEPT !.dual_engine_last_step = FALSE]]
        \* 276-277: update_triangle, apply_modular_wrap
        wrap(s1, success, flipped) ==
            commit(apply_modular_wrap(cfg, update_triangle(cfg,
                       [s1 EXCEPT !.sign_flip_polarity = flipped.polarity])),
                   success, flipped.upsilon, flipped.beta)
        \* 274: apply_sign_flip
        flip(s1, success, crossed) ==
            wrap(s1, success, apply_sign_flip(cfg, s1, crossed[1], crossed[2]))
        \* 273: apply_delta_cross
        cross(s1, ups_res, beta_res) ==
            flip(s1, ups_res.ok /\ beta_res.ok,
                 apply_delta_cross(cfg, s1, ups_res.result, beta_res.result))
        \* 259-271: the fresh deltas, then the two tracks
        ups_track(s1, ups_mode) ==
            IF use_delta_add
            THEN [ok |-> TRUE, result |-> rational_add(s1.upsilon, s1.delta_upsilon)]
            ELSE apply_track_mode(ups_mode, s1.upsilon, s1.upsilon, s1.beta, s1.koppa)
        tracks(s1, ups_mode, beta_mode) ==
            cross(s1,
                  ups_track(s1, ups_mode),
                  IF use_delta_add
                  THEN [ok |-> TRUE, result |-> rational_add(s1.beta, s1.delta_beta)]
                  ELSE apply_track_mode(beta_mode, s1.beta, s1.beta,
                                        beta_counterpart(s1, ups_track(s1, ups_mode).result),
                                        s1.koppa))
    IN  tracks([s EXCEPT !.delta_upsilon = rational_delta(s.upsilon, s.previous_upsilon),
                         !.delta_beta    = rational_delta(s.beta, s.previous_beta)],
               track_modes(cfg, s, mt)[1], track_modes(cfg, s, mt)[2])

(***************************************************************************)
(* psi.c (the strength-aware psi_transform, lines 100-313)                 *)
(***************************************************************************)
\* a standard_psi that stores the new upsilon and leaves beta as it was
standard_psi_upsilon_only(s) ==
    IF rational_is_zero(s.upsilon) \/ rational_is_zero(s.beta)
    THEN [ok |-> FALSE, state |-> s]
    ELSE [ok |-> TRUE,
          state |-> [s EXCEPT !.upsilon = rational_set_components(
                                  Num(s.beta) * Den(s.upsilon), Den(s.beta) * Num(s.upsilon))]]

\* a standard_psi that stores the products as they are, the sign of the
\* denominator included
standard_psi_raw_sign(s) ==
    IF rational_is_zero(s.upsilon) \/ rational_is_zero(s.beta)
    THEN [ok |-> FALSE, state |-> s]
    ELSE [ok |-> TRUE,
          state |-> [s EXCEPT
              !.upsilon = <<Num(s.beta) * Den(s.upsilon), Den(s.beta) * Num(s.upsilon)>>,
              !.beta    = <<Num(s.upsilon) * Den(s.beta), Den(s.upsilon) * Num(s.beta)>>]]

\* a standard_psi that stores the new pair in lowest terms
standard_psi_reduced(s) ==
    IF rational_is_zero(s.upsilon) \/ rational_is_zero(s.beta)
    THEN [ok |-> FALSE, state |-> s]
    ELSE [ok |-> TRUE,
          state |-> [s EXCEPT
              !.upsilon = mpq_canonicalize(<<Num(s.beta) * Den(s.upsilon),
                                             Den(s.beta) * Num(s.upsilon)>>),
              !.beta    = mpq_canonicalize(<<Num(s.upsilon) * Den(s.beta),
                                             Den(s.upsilon) * Num(s.beta)>>)]]

\* [ok, state]
standard_psi(s) ==
    IF rational_is_zero(s.upsilon) \/ rational_is_zero(s.beta)
    THEN [ok |-> FALSE, state |-> s]
    ELSE LET ups_num  == Num(s.upsilon)
             ups_den  == Den(s.upsilon)
             beta_num == Num(s.beta)
             beta_den == Den(s.beta)
         IN  [ok |-> TRUE,
              state |-> [s EXCEPT
                  !.upsilon = rational_set_components(beta_num * ups_den, beta_den * ups_num),
                  !.beta    = rational_set_components(ups_num * beta_den, ups_den * beta_num)]]

\* a triple_psi that reads the components as it goes, not from a snapshot
triple_psi_no_snapshot(s) ==
    IF rational_is_zero(s.koppa) \/ rational_is_zero(s.upsilon) \/ rational_is_zero(s.beta)
    THEN [ok |-> FALSE, state |-> s]
    ELSE LET new_u == rational_set_components(Num(s.beta) * Den(s.koppa),
                                              Den(s.beta) * Num(s.koppa))
             new_b == rational_set_components(Num(s.koppa) * Den(new_u),
                                              Den(s.koppa) * Num(new_u))
             new_k == rational_set_components(Num(s.koppa) * Den(new_b),
                                              Den(s.koppa) * Num(new_b))
         IN  [ok |-> TRUE,
              state |-> [s EXCEPT !.upsilon = new_u, !.beta = new_b, !.koppa = new_k]]

\* [ok, state]
triple_psi(s) ==
    IF rational_is_zero(s.koppa) \/ rational_is_zero(s.upsilon) \/ rational_is_zero(s.beta)
    THEN [ok |-> FALSE, state |-> s]
    ELSE LET ups_num   == Num(s.upsilon)
             ups_den   == Den(s.upsilon)
             beta_num  == Num(s.beta)
             beta_den  == Den(s.beta)
             koppa_num == Num(s.koppa)
             koppa_den == Den(s.koppa)
         IN  [ok |-> TRUE,
              state |-> [s EXCEPT
                  !.upsilon = rational_set_components(beta_num * koppa_den, beta_den * koppa_num),
                  !.beta    = rational_set_components(koppa_num * ups_den, koppa_den * ups_num),
                  !.koppa   = rational_set_components(koppa_num * beta_den, koppa_den * beta_num)]]

\* a strength that counts the prime numerators whether rho is pending or not
psi_strength_without_rho(cfg, s) ==
    IF ~cfg.enable_psi_strength_parameter THEN 1
    ELSE LET prime_count == (IF numerator_is_prime(s.upsilon) THEN 1 ELSE 0)
                          + (IF numerator_is_prime(s.beta) THEN 1 ELSE 0)
                          + (IF numerator_is_prime(s.koppa) THEN 1 ELSE 0)
         IN  IF prime_count <= 0 THEN 1 ELSE prime_count

psi_strength(cfg, s) ==
    IF ~cfg.enable_psi_strength_parameter \/ ~s.rho_pending THEN 1
    ELSE LET prime_count == (IF numerator_is_prime(s.upsilon) THEN 1 ELSE 0)
                          + (IF numerator_is_prime(s.beta) THEN 1 ELSE 0)
                          + (IF numerator_is_prime(s.koppa) THEN 1 ELSE 0)
         IN  IF prime_count <= 0 THEN 1 ELSE prime_count

\* a request_triple that ignores the conditional (all numerators prime) rule
request_triple_mode_only(cfg, s, i, strength) ==
    cfg.triple_psi_mode \/ (strength >= 3 /\ i = strength - 3)

\* 274-288: whether iteration i of the loop asks for the triple variant
request_triple(cfg, s, i, strength) ==
    \/ cfg.triple_psi_mode
    \/ /\ cfg.enable_conditional_triple_psi
       /\ numerator_is_prime(s.upsilon)
       /\ numerator_is_prime(s.beta)
       /\ numerator_is_prime(s.koppa)
    \/ (strength >= 3 /\ i = strength - 3)

\* iterations i .. strength-1 of the loop of psi_transform; [fired, state]
RECURSIVE psi_loop(_, _, _, _, _)
psi_loop(cfg, s, i, strength, fired) ==
    IF i >= strength THEN [fired |-> fired, state |-> s]
    ELSE LET \* 298-308: the outcome of this iteration
             after(triple, res) ==
                 IF res.ok
                 THEN psi_loop(cfg,
                               [res.state EXCEPT
                                   !.psi_triple_recent = IF triple THEN TRUE ELSE @,
                                   !.psi_recent = TRUE,
                                   !.rho_pending = IF i = 0 THEN FALSE ELSE @],
                               i + 1, strength, TRUE)
                 ELSE [fired |-> FALSE, state |-> res.state]
             \* 288-296: the transform this iteration asks for
             attempt(triple) ==
                 after(triple, IF triple THEN triple_psi(s) ELSE standard_psi(s))
         IN  attempt(request_triple(cfg, s, i, strength))

\* a psi_transform whose first successful fire leaves rho_pending as it was
psi_transform_keeps_rho(cfg, s) ==
    LET restore(r) == [fired |-> r.fired,
                       state |-> [r.state EXCEPT !.rho_pending = s.rho_pending]]
    IN  IF (cfg.psi_mode = "RHO_ONLY" \/ cfg.psi_mode = "MSTEP_RHO")
           /\ (~s.rho_pending \/ ~is_fibonacci_tick(s.tick))
        THEN [fired |-> FALSE, state |-> [s EXCEPT !.psi_triple_recent = FALSE,
                                                   !.psi_recent = FALSE,
                                                   !.psi_strength_applied = FALSE]]
        ELSE IF ~(s.rho_pending \/ cfg.psi_mode = "MSTEP")
        THEN [fired |-> FALSE, state |-> [s EXCEPT !.psi_triple_recent = FALSE,
                                                   !.psi_recent = FALSE,
                                                   !.psi_strength_applied = FALSE]]
        ELSE restore(psi_loop(cfg, [s EXCEPT !.psi_triple_recent = FALSE,
                                             !.psi_recent = FALSE,
                                             !.psi_strength_applied = FALSE],
                              0, 1, FALSE))

\* a psi_transform that reports every attempted transform as fired
psi_transform_fired_on_attempt(cfg, s) ==
    LET s0 == [s EXCEPT !.psi_triple_recent = FALSE,
                        !.psi_recent = FALSE,
                        !.psi_strength_applied = FALSE]
        rho_gated == cfg.psi_mode = "RHO_ONLY" \/ cfg.psi_mode = "MSTEP_RHO"
        can_fire  == s.rho_pending \/ cfg.psi_mode = "MSTEP"
        run(strength) ==
            [fired |-> TRUE,
             state |-> psi_loop(cfg, [s0 EXCEPT !.psi_strength_applied = strength > 1],
                                0, strength, FALSE).state]
    IN  IF rho_gated /\ ~s.rho_pending THEN [fired |-> FALSE, state |-> s0]
        ELSE IF rho_gated /\ ~is_fibonacci_tick(s.tick) THEN [fired |-> FALSE, state |-> s0]
        ELSE IF ~can_fire THEN [fired |-> FALSE, state |-> s0]
        ELSE run(psi_strength(cfg, s0))

\* a psi_transform that sets psi_strength_applied whenever the loop is entered
psi_transform_flag_any_strength(cfg, s) ==
    LET s0 == [s EXCEPT !.psi_triple_recent = FALSE,
                        !.psi_recent = FALSE,
                        !.psi_strength_applied = FALSE]
        rho_gated == cfg.psi_mode = "RHO_ONLY" \/ cfg.psi_mode = "MSTEP_RHO"
        can_fire  == s.rho_pending \/ cfg.psi_mode = "MSTEP"
        run(strength) ==
            psi_loop(cfg, [s0 EXCEPT !.psi_strength_applied = TRUE],
                     0, strength, FALSE)
    IN  IF rho_gated /\ ~s.rho_pending THEN [fired |-> FALSE, state |-> s0]
        ELSE IF rho_gated /\ ~is_fibonacci_tick(s.tick) THEN [fired |-> FALSE, state |-> s0]
        ELSE IF ~can_fire THEN [fired |-> FALSE, state |-> s0]
        ELSE run(psi_strength(cfg, s0))

\* [fired, state]
psi_transform(cfg, s) ==
    LET s0 == [s EXCEPT !.psi_triple_recent = FALSE,
                        !.psi_recent = FALSE,
                        !.psi_strength_applied = FALSE]
        rho_gated == cfg.psi_mode = "RHO_ONLY" \/ cfg.psi_mode = "MSTEP_RHO"
        can_fire  == s.rho_pending \/ cfg.psi_mode = "MSTEP"
        run(strength) ==
            psi_loop(cfg, [s0 EXCEPT !.psi_strength_applied = strength > 1],
                     0, strength, FALSE)
    IN  IF rho_gated /\ ~s.rho_pending THEN [fired |-> FALSE, state |-> s0]
        ELSE IF rho_gated /\ ~is_fibonacci_tick(s.tick) THEN [fired |-> FALSE, state |-> s0]
        ELSE IF ~can_fire THEN [fired |-> FALSE, state |-> s0]
        ELSE run(psi_strength(cfg, s0))

(***************************************************************************)
(* koppa accrual (analysis_utils.c lines 530-630)                          *)
(***************************************************************************)
koppa_dump(s) == [s EXCEPT !.koppa = <<0, 1>>]

\* a koppa_pop that takes the current upsilon, not the snapshot
koppa_pop_from_upsilon(s) == [s EXCEPT !.koppa = s.upsilon]

koppa_pop(s) == [s EXCEPT !.koppa = s.epsilon]

koppa_accumulate(s) == [s EXCEPT !.koppa = mpq_canonicalize(mpq_add(s.koppa, s.epsilon))]

\* a koppa_stack_push that restarts a full stack at size 1
koppa_stack_push_restart(s, value) ==
    IF s.koppa_stack_size = 4
    THEN [s EXCEPT !.koppa_stack = <<value, value, value, value>>,
                   !.koppa_stack_size = 1]
    ELSE [s EXCEPT !.koppa_stack = [@ EXCEPT ![s.koppa_stack_size + 1] = value],
                   !.koppa_stack_size = @ + 1]

\* a koppa_stack_push without the full-stack shift
koppa_stack_push_no_shift(s, value) ==
    [s EXCEPT !.koppa_stack_size = @ + 1]

\* a koppa_stack_push that overwrites the newest slot of a full stack
koppa_stack_push_overwrite_last(s, value) ==
    IF s.koppa_stack_size = 4
    THEN [s EXCEPT !.koppa_stack = [@ EXCEPT ![4] = value]]
    ELSE [s EXCEPT !.koppa_stack = [@ EXCEPT ![s.koppa_stack_size + 1] = value],
                   !.koppa_stack_size = @ + 1]

koppa_stack_push(s, value) ==
    IF s.koppa_stack_size = 4
    THEN [s EXCEPT !.koppa_stack = <<@[2], @[3], @[4], value>>]
    ELSE [s EXCEPT !.koppa_stack = [@ EXCEPT ![s.koppa_stack_size + 1] = value],
                   !.koppa_stack_size = @ + 1]

koppa_update_sample(s, mt, multi_level_active) ==
    LET s0 == [s EXCEPT !.koppa_sample_index = -1, !.koppa_sample = s.koppa]
    IN  IF ~multi_level_active THEN s0
        ELSE IF mt = 11 /\ s0.koppa_stack_size > 0
             THEN [s0 EXCEPT !.koppa_sample = s0.koppa_stack[1], !.koppa_sample_index = 0]
        ELSE IF mt = 5 /\ s0.koppa_stack_size > 2
             THEN [s0 EXCEPT !.koppa_sample = s0.koppa_stack[3], !.koppa_sample_index = 2]
        ELSE s0

\* a trigger whose ON_MU_AFTER_PSI holds in every M microtick without a psi
koppa_trigger_holds_after_any_mu(cfg, s, psi_fired, is_memory_step) ==
    CASE cfg.koppa_trigger = "ON_PSI" -> psi_fired
      [] cfg.koppa_trigger = "ON_MU_AFTER_PSI" -> is_memory_step /\ ~psi_fired
      [] cfg.koppa_trigger = "ON_ALL_MU" -> is_memory_step
      [] OTHER -> FALSE

\* a trigger whose ON_ALL_MU holds in every phase that accrues
koppa_trigger_holds_every_step(cfg, s, psi_fired, is_memory_step) ==
    CASE cfg.koppa_trigger = "ON_PSI" -> psi_fired
      [] cfg.koppa_trigger = "ON_MU_AFTER_PSI" -> is_memory_step /\ ~psi_fired /\ s.psi_recent
      [] cfg.koppa_trigger = "ON_ALL_MU" -> TRUE

koppa_trigger_holds(cfg, s, psi_fired, is_memory_step) ==
    CASE cfg.koppa_trigger = "ON_PSI" -> psi_fired
      [] cfg.koppa_trigger = "ON_MU_AFTER_PSI" -> is_memory_step /\ ~psi_fired /\ s.psi_recent
      [] cfg.koppa_trigger = "ON_ALL_MU" -> is_memory_step

koppa_accrue(cfg, s, psi_fired, is_memory_step, mt) ==
    IF ~koppa_trigger_holds(cfg, s, psi_fired, is_memory_step)
    THEN koppa_update_sample(
             IF ~psi_fired /\ cfg.koppa_trigger # "ON_ALL_MU"
             THEN [s EXCEPT !.psi_recent = @ /\ cfg.koppa_trigger = "ON_MU_AFTER_PSI"]
             ELSE s,
             mt, cfg.multi_level_koppa)
    ELSE LET \* 616-629: koppa takes upsilon + beta, psi_recent is updated, the sample
             add(s2) ==
                 koppa_update_sample(
                     [s2 EXCEPT !.koppa = mpq_canonicalize(
                                    mpq_add(s2.koppa, mpq_add(s2.upsilon, s2.beta))),
                                !.psi_recent = IF cfg.koppa_trigger = "ON_MU_AFTER_PSI"
                                               THEN FALSE ELSE psi_fired],
                     mt, cfg.multi_level_koppa)
             \* 604-614: the koppa mode
             mode(s1) ==
                 add(CASE cfg.koppa_mode = "DUMP" -> koppa_dump(s1)
                       [] cfg.koppa_mode = "POP" -> koppa_pop(s1)
                       [] cfg.koppa_mode = "ACCUMULATE" -> koppa_accumulate(s1))
         IN  \* 600-602: the push of the outgoing koppa
             mode(IF cfg.multi_level_koppa THEN koppa_stack_push(s, s.koppa) ELSE s)

(***************************************************************************)
(* simulate.c: ratio triggers and psi conditions                           *)
(***************************************************************************)
\* <<lower, upper>>
ratio_bounds(mode) ==
    CASE mode = "GOLDEN"  -> <<rational_set_si(3, 2), rational_set_si(17, 10)>>
      [] mode = "SQRT2"   -> <<rational_set_si(13, 10), rational_set_si(3, 2)>>
      [] mode = "PLASTIC" -> <<rational_set_si(6, 5), rational_set_si(7, 5)>>
      [] OTHER            -> <<rational_set_si(0, 1), rational_set_si(0, 1)>>

\* a window test whose CUSTOM mode does not ask for enable_ratio_custom_range
ratio_in_range_custom_unflagged(cfg, s) ==
    IF cfg.ratio_trigger_mode = "NONE" THEN FALSE
    ELSE IF rational_is_zero(s.beta) THEN FALSE
    ELSE LET ratio == rational_div(s.upsilon, s.beta)
         IN  IF cfg.ratio_trigger_mode = "CUSTOM"
             THEN mpq_gt(ratio, cfg.ratio_custom_lower) /\ mpq_lt(ratio, cfg.ratio_custom_upper)
             ELSE LET bounds == ratio_bounds(cfg.ratio_trigger_mode)
                  IN  mpq_gt(ratio, bounds[1]) /\ mpq_lt(ratio, bounds[2])

ratio_in_range(cfg, s) ==
    IF cfg.ratio_trigger_mode = "NONE" THEN FALSE
    ELSE IF rational_is_zero(s.beta) THEN FALSE
    ELSE LET ratio == rational_div(s.upsilon, s.beta)
         IN  IF cfg.ratio_trigger_mode = "CUSTOM" /\ cfg.enable_ratio_custom_range
             THEN mpq_gt(ratio, cfg.ratio_custom_lower) /\ mpq_lt(ratio, cfg.ratio_custom_upper)
             ELSE LET bounds == ratio_bounds(cfg.ratio_trigger_mode)
                  IN  mpq_gt(ratio, bounds[1]) /\ mpq_lt(ratio, bounds[2])

\* the double snapshot of the ratio is compared with 0.5 and 2.0; on the
\* magnitudes explored the comparison of the double equals the exact one
ratio_threshold_outside(cfg, s) ==
    IF ~cfg.enable_ratio_threshold_psi THEN FALSE
    ELSE IF rational_is_zero(s.beta) THEN FALSE
    ELSE LET ratio == rational_div(s.upsilon, s.beta)
             mn == Abs(Num(ratio))
         IN  2 * mn < Den(ratio) \/ mn > 2 * Den(ratio)

\* a should_fire_psi whose MSTEP mode asks for psi only when rho is pending
should_fire_psi_mstep_needs_rho(cfg, s, is_memory_step, allow_stack) ==
    IF ~is_memory_step \/ ~allow_stack THEN FALSE
    ELSE CASE cfg.psi_mode = "MSTEP" -> s.rho_pending
           [] cfg.psi_mode = "RHO_ONLY" -> s.rho_pending
           [] cfg.psi_mode = "MSTEP_RHO" -> TRUE
           [] cfg.psi_mode = "INHIBIT_RHO" -> ~s.rho_pending
           [] OTHER -> FALSE

should_fire_psi(cfg, s, is_memory_step, allow_stack) ==
    IF ~is_memory_step \/ ~allow_stack THEN FALSE
    ELSE CASE cfg.psi_mode = "MSTEP" -> TRUE
           [] cfg.psi_mode = "RHO_ONLY" -> s.rho_pending
           [] cfg.psi_mode = "MSTEP_RHO" -> TRUE
           [] cfg.psi_mode = "INHIBIT_RHO" -> ~s.rho_pending
           [] OTHER -> FALSE

\* a stack gate that is open at every even depth, the empty stack included
stack_allows_psi_even_depth(cfg, s) ==
    IF ~cfg.enable_stack_depth_modes THEN TRUE
    ELSE s.koppa_stack_size % 2 = 0

\* a stack gate that is open at every non-empty depth
stack_allows_psi_any_depth(cfg, s) ==
    IF ~cfg.enable_stack_depth_modes THEN TRUE
    ELSE s.koppa_stack_size >= 1

stack_allows_psi(cfg, s) ==
    IF ~cfg.enable_stack_depth_modes THEN TRUE
    ELSE s.koppa_stack_size = 2 \/ s.koppa_stack_size = 4

(***************************************************************************)
(* State (state.h, config.c)                                               *)
(***************************************************************************)
state_zero == rational_set_si(0, 1)

\* state_init followed by state_reset.  Neither writes the tick counter
\* that psi_transform reads (psi.c:252) and run_simulation never assigns
\* it: the field keeps whatever the stack held, here the value junk.
state_reset(cfg, junk) ==
    [upsilon |-> cfg.initial_upsilon,
     beta |-> cfg.initial_beta,
     koppa |-> cfg.initial_koppa,
     epsilon |-> cfg.initial_upsilon,
     phi |-> cfg.initial_beta,
     previous_upsilon |-> cfg.initial_upsilon,
     previous_beta |-> cfg.initial_beta,
     delta_upsilon |-> state_zero,
     delta_beta |-> state_zero,
     triangle_phi_over_epsilon |-> state_zero,
     triangle_prev_over_phi |-> state_zero,
     triangle_epsilon_over_prev |-> state_zero,
     koppa_stack |-> <<state_zero, state_zero, state_zero, state_zero>>,
     koppa_sample |-> cfg.initial_koppa,
     koppa_stack_size |-> 0,
     koppa_sample_index |-> -1,
     rho_pending |-> FALSE,
     rho_latched |-> FALSE,
     psi_recent |-> FALSE,
     ratio_triggered_recent |-> FALSE,
     psi_triple_recent |-> FALSE,
     dual_engine_last_step |-> FALSE,
     ratio_threshold_recent |-> FALSE,
     psi_strength_applied |-> FALSE,
     sign_flip_polarity |-> FALSE,
     tick |-> junk]

(***************************************************************************)
(* The microtick body of run_simulation (simulate.c 339-438)               *)
(***************************************************************************)
\* a switch without the case for microtick 10, which falls to the default
phase_of_no_mt10(mt) ==
    CASE mt \in {1, 4, 7} -> "E"
      [] mt \in {2, 5, 8, 11} -> "M"
      [] OTHER -> "R"

phase_of(mt) ==
    CASE mt \in {1, 4, 7, 10} -> "E"
      [] mt \in {2, 5, 8, 11} -> "M"
      [] OTHER -> "R"

\* a top of the loop body that leaves ratio_triggered_recent as it was
clear_flags_keeps_ratio(s) ==
    [s EXCEPT !.psi_triple_recent = FALSE,
              !.dual_engine_last_step = FALSE,
              !.koppa_sample_index = -1,
              !.koppa_sample = s.koppa,
              !.ratio_threshold_recent = FALSE,
              !.psi_strength_applied = FALSE]

\* the per-microtick flags cleared at the top of the loop body
clear_flags(s) ==
    [s EXCEPT !.ratio_triggered_recent = FALSE,
              !.psi_triple_recent = FALSE,
              !.dual_engine_last_step = FALSE,
              !.koppa_sample_index = -1,
              !.koppa_sample = s.koppa,
              !.ratio_threshold_recent = FALSE,
              !.psi_strength_applied = FALSE]

\* the locals of the loop body; accrual_koppa is the koppa handed to
\* koppa_accrue (in an E microtick, which has no accrual, the koppa it ends
\* with) and accrual_psi_recent the psi_recent handed to it in an M
\* microtick; modes are the track modes of the engine step of an E microtick
NoLocals == [engine_ok |-> TRUE, allow_stack |-> FALSE, request_psi |-> FALSE,
             ratio_triggered |-> FALSE, ratio_threshold |-> FALSE, trigger |-> FALSE,
             accrual_koppa |-> <<0, 1>>, accrual_psi_recent |-> FALSE,
             modes |-> <<"-", "-">>]

\* a prime target that is the new upsilon whatever the Config asks for
prime_target_always_upsilon(cfg, s) == s.upsilon

\* 376-378: the value the pattern test of the E phase looks at
prime_target(cfg, s) ==
    IF cfg.prime_target = "PRIME_ON_MEMORY" THEN s.epsilon ELSE s.upsilon

\* case 'E': [state, rho_event, psi_fired, mu_zero, forced_emission, loc]
phase_E(cfg, s, mt) ==
    LET \* 379-399: rho is marked from the pattern, and forced at microtick 10
        mark(s1, engine_ok, pattern) ==
            [state |-> IF mt = 10 /\ (pattern \/ cfg.mt10_behavior = "FORCED_PSI")
                       THEN [s1 EXCEPT !.rho_pending = TRUE, !.rho_latched = TRUE]
                       ELSE [s1 EXCEPT !.rho_pending = pattern, !.rho_latched = pattern],
             rho_event |-> pattern, psi_fired |-> FALSE, mu_zero |-> FALSE,
             forced_emission |-> (mt = 10),
             loc |-> [NoLocals EXCEPT !.engine_ok = engine_ok, !.accrual_koppa = s1.koppa,
                                      !.modes = track_modes(cfg, s, mt)]]
        \* 374-378: the prime target is probed whatever engine_step returned
        probe(eng) ==
            mark(eng.state, eng.ok,
                 mpq_has_pattern_component(cfg, prime_target(cfg, eng.state)))
    IN  probe(engine_step(cfg, [s EXCEPT !.epsilon = s.upsilon], mt))

\* an M phase that leaves the rho latch as it is
reset_rho_latch_skipped(s) == s

\* 424: the rho latch is dropped at the end of the M phase
reset_rho_latch(s) == [s EXCEPT !.rho_latched = FALSE]

\* case 'M'
phase_M(cfg, s, mt) ==
    LET \* 423-424: koppa_accrue, the latch is dropped
        accrue(s2, psi_fired, allow_stack, request_psi, ratio_triggered, ratio_threshold) ==
            [state |-> reset_rho_latch(koppa_accrue(cfg, s2, psi_fired, TRUE, mt)),
             rho_event |-> FALSE, psi_fired |-> psi_fired,
             mu_zero |-> rational_is_zero(s.beta),
             forced_emission |-> FALSE,
             loc |-> [NoLocals EXCEPT !.allow_stack = allow_stack,
                                      !.request_psi = request_psi,
                                      !.ratio_triggered = ratio_triggered,
                                      !.ratio_threshold = ratio_threshold,
                                      !.trigger = koppa_trigger_holds(cfg, s2, psi_fired, TRUE),
                                      !.accrual_koppa = s2.koppa,
                                      !.accrual_psi_recent = s2.psi_recent]]
        \* 421: the ratio trigger is recorded
        record(psi, allow_stack, request_psi, ratio_triggered, ratio_threshold) ==
            accrue([psi.state EXCEPT !.ratio_triggered_recent = ratio_triggered],
                   psi.fired, allow_stack, request_psi, ratio_triggered, ratio_threshold)
        \* 412-420: psi_transform when psi is requested and the stack allows it
        fire(allow_stack, request_psi, ratio_triggered, ratio_threshold) ==
            record(IF request_psi /\ allow_stack
                   THEN psi_transform(cfg, [s EXCEPT !.ratio_threshold_recent =
                                                         IF ratio_threshold THEN TRUE ELSE @])
                   ELSE [fired |-> FALSE,
                         state |-> [s EXCEPT !.ratio_threshold_recent =
                                                 IF ratio_threshold THEN TRUE ELSE @,
                                             !.psi_recent = FALSE]],
                   allow_stack, request_psi, ratio_triggered, ratio_threshold)
        \* 404-411: the gates
        gates(allow_stack, ratio_triggered, ratio_threshold) ==
            fire(allow_stack,
                 should_fire_psi(cfg, s, TRUE, allow_stack) \/ ratio_triggered \/ ratio_threshold,
                 ratio_triggered, ratio_threshold)
    IN  gates(stack_allows_psi(cfg, s), ratio_in_range(cfg, s), ratio_threshold_outside(cfg, s))

\* case 'R'
phase_R(cfg, s, mt) ==
    LET s1 == koppa_accrue(cfg, s, FALSE, FALSE, mt)
    IN  [state |-> [s1 EXCEPT !.psi_recent = FALSE, !.rho_latched = FALSE],
         rho_event |-> FALSE, psi_fired |-> FALSE, mu_zero |-> FALSE,
         forced_emission |-> FALSE,
         loc |-> [NoLocals EXCEPT !.trigger = koppa_trigger_holds(cfg, s, FALSE, FALSE),
                                  !.accrual_koppa = s.koppa]]

(***************************************************************************)
(* The Configs explored.                                                   *)
(***************************************************************************)
\* a Config with every optional feature off, and the seeds of the first
\* end-to-end scenario
BaseConfig ==
    [psi_mode |-> "MSTEP", koppa_mode |-> "DUMP", engine_mode |-> "ADD",
     engine_upsilon |-> "ADD", engine_beta |-> "ADD",
     dual_track_mode |-> FALSE, triple_psi_mode |-> FALSE, multi_level_koppa |-> FALSE,
     koppa_trigger |-> "ON_PSI", prime_target |-> "PRIME_ON_NEW_UPSILON",
     mt10_behavior |-> "FORCED_EMISSION_ONLY", ratio_trigger_mode |-> "NONE",
     ticks |-> 1,
     initial_upsilon |-> <<3, 5>>, initial_beta |-> <<5, 7>>, initial_koppa |-> <<1, 1>>,
     enable_asymmetric_cascade |-> FALSE, enable_conditional_triple_psi |-> FALSE,
     enable_koppa_gated_engine |-> FALSE, enable_delta_cross_propagation |-> FALSE,
     enable_delta_koppa_offset |-> FALSE, enable_ratio_threshold_psi |-> FALSE,
     enable_stack_depth_modes |-> FALSE, enable_epsilon_phi_triangle |-> FALSE,
     enable_sign_flip |-> FALSE, enable_modular_wrap |-> FALSE,
     enable_psi_strength_parameter |-> FALSE,
     sign_flip_mode |-> "NONE", koppa_wrap_threshold |-> 1000,
     enable_ratio_custom_range |-> FALSE,
     ratio_custom_lower |-> <<1, 1>>, ratio_custom_upper |-> <<1, 1>>,
     enable_twin_prime_trigger |-> FALSE, enable_fibonacci_trigger |-> FALSE,
     enable_perfect_power_trigger |-> FALSE]

PsiModes == {"MSTEP", "RHO_ONLY", "MSTEP_RHO", "INHIBIT_RHO"}
KoppaModes == {"DUMP", "POP", "ACCUMULATE"}
EngineModes == {"ADD", "MULTI", "SLIDE", "DELTA_ADD"}
KoppaTriggers == {"ON_PSI", "ON_MU_AFTER_PSI", "ON_ALL_MU"}

\* <<upsilon, beta, koppa>> seeds
Seeds == { <<<<3, 5>>, <<5, 7>>, <<1, 1>>>>,
           <<<<2, 4>>, <<5, 7>>, <<0, 1>>>>,
           <<<<2, 1>>, <<1, 1>>, <<1, 1>>>>,
           <<<<4, 1>>, <<3, 1>>, <<5, 1>>>>,
           <<<<7, 2>>, <<4, 1>>, <<0, 1>>>>,
           <<<<0, 1>>, <<1, 1>>, <<2, 1>>>>,
           <<<<1, 1>>, <<0, 1>>, <<5, 1>>>>,
           <<<<-3, 2>>, <<1, 1>>, <<1, 1>>>>,
           <<<<-4, 6>>, <<1, 1>>, <<1, 1>>>>,
           <<<<2, 1>>, <<1, 1>>, <<2, 1>>>> }

\* the modes, all features off
ModeConfigs ==
    { [BaseConfig EXCEPT !.psi_mode = pm, !.koppa_mode = km, !.engine_mode = em,
                         !.koppa_trigger = kt]
        : pm \in PsiModes, km \in KoppaModes, em \in EngineModes, kt \in KoppaTriggers }

\* strength amplification and the triple variants
StrengthConfigs ==
    { [BaseConfig EXCEPT !.psi_mode = pm, !.koppa_trigger = kt,
                         !.prime_target = "PRIME_ON_MEMORY",
                         !.enable_psi_strength_parameter = TRUE,
                         !.enable_conditional_triple_psi = ct,
                         !.triple_psi_mode = tp]
        : pm \in PsiModes, kt \in KoppaTriggers, ct \in BOOLEAN, tp \in BOOLEAN }

\* strength amplification over the MULTI engine, which keeps a zero beta zero
StrengthMultiConfigs ==
    { [BaseConfig EXCEPT !.psi_mode = pm, !.engine_mode = "MULTI",
                         !.enable_psi_strength_parameter = TRUE,
                         !.triple_psi_mode = tp]
        : pm \in {"MSTEP", "INHIBIT_RHO"}, tp \in BOOLEAN }

\* ratio windows and the ratio threshold
RatioConfigs ==
    { [BaseConfig EXCEPT !.psi_mode = pm, !.engine_mode = em,
                         !.ratio_trigger_mode = rm,
                         !.enable_ratio_threshold_psi = rt,
                         !.mt10_behavior = m10]
        : pm \in PsiModes, em \in {"MULTI", "DELTA_ADD"},
          rm \in {"NONE", "GOLDEN", "SQRT2", "PLASTIC"}, rt \in BOOLEAN,
          m10 \in {"FORCED_EMISSION_ONLY", "FORCED_PSI"} }

\* the koppa stack and the stack-depth gate
StackConfigs ==
    { [BaseConfig EXCEPT !.psi_mode = pm, !.koppa_trigger = kt, !.koppa_mode = km,
                         !.engine_mode = em,
                         !.multi_level_koppa = TRUE,
                         !.enable_stack_depth_modes = sd,
                         !.ratio_trigger_mode = rm]
        : pm \in PsiModes, kt \in KoppaTriggers, km \in {"DUMP", "POP"},
          em \in {"ADD", "DELTA_ADD"}, sd \in BOOLEAN, rm \in {"NONE", "PLASTIC"} }

\* engine steps that can fail, with the optional engine features
EngineConfigs ==
    { [BaseConfig EXCEPT !.engine_mode = em,
                         !.enable_asymmetric_cascade = ac,
                         !.enable_sign_flip = (sf # "NONE"),
                         !.sign_flip_mode = sf,
                         !.enable_epsilon_phi_triangle = tr,
                         !.enable_modular_wrap = tr,
                         !.koppa_wrap_threshold = 3,
                         !.enable_delta_cross_propagation = dc,
                         !.enable_delta_koppa_offset = dc]
        : em \in {"ADD", "SLIDE"}, ac \in BOOLEAN, sf \in {"NONE", "ALWAYS", "ALTERNATE"},
          tr \in BOOLEAN, dc \in BOOLEAN }

\* the triple mode with the koppa modes that read epsilon and koppa
TripleKoppaConfigs ==
    { [BaseConfig EXCEPT !.triple_psi_mode = TRUE, !.koppa_mode = km, !.koppa_trigger = kt]
        : km \in {"POP", "ACCUMULATE"}, kt \in KoppaTriggers }

\* the optional pattern triggers, probed on epsilon
PatternConfigs ==
    { [BaseConfig EXCEPT !.psi_mode = pm, !.engine_mode = em,
                         !.prime_target = "PRIME_ON_MEMORY",
                         !.enable_twin_prime_trigger = tw,
                         !.enable_fibonacci_trigger = fb,
                         !.enable_perfect_power_trigger = pp]
        : pm \in {"MSTEP", "RHO_ONLY"}, em \in {"ADD", "MULTI"},
          tw \in BOOLEAN, fb \in BOOLEAN, pp \in BOOLEAN }

\* the custom ratio window, with and without enable_ratio_custom_range
CustomRatioConfigs ==
    { [BaseConfig EXCEPT !.psi_mode = pm, !.engine_mode = em,
                         !.ratio_trigger_mode = "CUSTOM",
                         !.enable_ratio_custom_range = cr,
                         !.ratio_custom_lower = <<1, 1>>,
                         !.ratio_custom_upper = up]
        : pm \in {"MSTEP", "RHO_ONLY"}, em \in {"MULTI", "DELTA_ADD"}, cr \in BOOLEAN,
          up \in {<<4, 3>>, <<2, 1>>} }

\* the layers that select the track modes, over a stack that grows
LayerConfigs ==
    { [BaseConfig EXCEPT !.engine_mode = em, !.dual_track_mode = dt,
                         !.engine_upsilon = "SLIDE", !.engine_beta = "MULTI",
                         !.enable_asymmetric_cascade = ac,
                         !.enable_stack_depth_modes = sd,
                         !.enable_koppa_gated_engine = kg,
                         !.multi_level_koppa = TRUE, !.koppa_trigger = "ON_ALL_MU"]
        : em \in {"MULTI", "DELTA_ADD"}, dt \in BOOLEAN, ac \in BOOLEAN,
          sd \in BOOLEAN, kg \in BOOLEAN }

\* the sign flip modes with the flag on and off
SignConfigs ==
    { [BaseConfig EXCEPT !.engine_mode = em, !.enable_sign_flip = en, !.sign_flip_mode = sf]
        : em \in {"ADD", "SLIDE"}, en \in BOOLEAN, sf \in {"NONE", "ALWAYS", "ALTERNATE"} }

\* the stack-depth gate over a stack that is never filled
DepthGateConfigs ==
    { [BaseConfig EXCEPT !.psi_mode = pm, !.koppa_trigger = kt,
                         !.enable_stack_depth_modes = TRUE,
                         !.enable_ratio_threshold_psi = rt]
        : pm \in {"MSTEP", "INHIBIT_RHO"}, kt \in KoppaTriggers, rt \in BOOLEAN }

\* the Config config_init leaves
DefaultConfigs ==
    { [BaseConfig EXCEPT !.enable_asymmetric_cascade = TRUE,
                         !.enable_conditional_triple_psi = TRUE,
                         !.enable_koppa_gated_engine = TRUE,
                         !.enable_delta_cross_propagation = TRUE,
                         !.enable_delta_koppa_offset = TRUE,
                         !.enable_ratio_threshold_psi = TRUE,
                         !.enable_stack_depth_modes = TRUE,
                         !.enable_epsilon_phi_triangle = TRUE,
                         !.enable_sign_flip = TRUE,
                         !.enable_modular_wrap = TRUE,
                         !.enable_psi_strength_parameter = TRUE] }

\* the dual-track engine
DualConfigs ==
    { [BaseConfig EXCEPT !.dual_track_mode = TRUE, !.engine_upsilon = eu, !.engine_beta = eb]
        : eu \in {"ADD", "MULTI"}, eb \in {"ADD", "SLIDE"} }

Families == ModeConfigs \cup StrengthConfigs \cup RatioConfigs \cup StackConfigs
            \cup EngineConfigs \cup TripleKoppaConfigs \cup PatternConfigs
            \cup CustomRatioConfigs \cup DualConfigs \cup LayerConfigs
            \cup SignConfigs \cup DepthGateConfigs \cup DefaultConfigs \cup StrengthMultiConfigs

ConfigSet ==
    { [c EXCEPT !.ticks = n, !.initial_upsilon = sd[1], !.initial_beta = sd[2],
                !.initial_koppa = sd[3]]
        : c \in Families, n \in 0..MaxTicks, sd \in Seeds }

\* values the unassigned tick counter of State may hold
JunkTicks == {0, 5}

(***************************************************************************)
(* The run: entry points, the loop, one action per microtick phase.        *)
(***************************************************************************)
NoObs == [tick |-> 0, microtick |-> 0, phase |-> "-", rho_event |-> FALSE,
          psi_fired |-> FALSE, mu_zero |-> FALSE, forced_emission |-> FALSE]

Init ==
    /\ config \in ConfigSet
    /\ \E junk \in JunkTicks : state = state_reset(config, junk)
    /\ pc = "entry"
    /\ outputs = "none"
    /\ tick = 1
    /\ microtick = 1
    /\ obs = NoObs
    /\ nObs = 0
    /\ eventsRows = 0
    /\ valuesRows = 0
    /\ observerCalls = 0
    /\ loc = [NoLocals EXCEPT !.accrual_koppa = state.koppa] @@ [pre |-> state]

\* simulate(): both files open, the headers are written, the loop starts
simulate ==
    /\ pc = "entry"
    /\ pc' = "loop"
    /\ outputs' = "files"
    /\ UNCHANGED <<config, state, tick, microtick, obs, nObs, eventsRows, valuesRows,
                   observerCalls, loc>>

\* simulate(): fopen fails, perror, return without running
simulate_fopen_fails ==
    /\ pc = "entry"
    /\ pc' = "io_failed"
    /\ UNCHANGED <<config, state, outputs, tick, microtick, obs, nObs, eventsRows,
                   valuesRows, observerCalls, loc>>

\* simulate_stream(): no files, the observer is called
simulate_stream ==
    /\ pc = "entry"
    /\ pc' = "loop"
    /\ outputs' = "observer"
    /\ UNCHANGED <<config, state, tick, microtick, obs, nObs, eventsRows, valuesRows,
                   observerCalls, loc>>

Fits(r) == Abs(Num(r)) <= MaxMag /\ Abs(Den(r)) <= MaxMag

\* the magnitudes an E or M microtick is explored from
InRange(s) == Fits(s.upsilon) /\ Fits(s.beta) /\ Fits(s.koppa)

FitsAmp(r) == Abs(Num(r)) <= MaxAmpMag /\ Abs(Den(r)) <= MaxAmpMag

\* the magnitudes an M microtick whose psi is amplified is explored from
AmpRange(cfg, s) ==
    psi_strength(cfg, s) > 1 => (FitsAmp(s.upsilon) /\ FitsAmp(s.beta) /\ FitsAmp(s.koppa))

\* one iteration of the microtick loop: clear the flags, run the phase,
\* emit_outputs, advance the loop counters
Microtick(res) ==
    /\ state' = res.state
    /\ obs' = [tick |-> tick, microtick |-> microtick, phase |-> phase_of(microtick),
               rho_event |-> res.rho_event, psi_fired |-> res.psi_fired,
               mu_zero |-> res.mu_zero, forced_emission |-> res.forced_emission]
    /\ loc' = res.loc @@ [pre |-> state]
    /\ nObs' = nObs + 1
    /\ eventsRows' = IF outputs = "files" THEN eventsRows + 1 ELSE eventsRows
    /\ valuesRows' = IF outputs = "files" THEN valuesRows + 1 ELSE valuesRows
    /\ observerCalls' = IF outputs = "observer" THEN observerCalls + 1 ELSE observerCalls
    /\ microtick' = IF microtick = 11 THEN 1 ELSE microtick + 1
    /\ tick' = IF microtick = 11 THEN tick + 1 ELSE tick
    /\ UNCHANGED <<config, pc, outputs>>

MicrotickE ==
    /\ pc = "loop" /\ tick <= config.ticks
    /\ phase_of(microtick) = "E"
    /\ InRange(state)
    /\ Microtick(phase_E(config, clear_flags(state), microtick))

MicrotickM ==
    /\ pc = "loop" /\ tick <= config.ticks
    /\ phase_of(microtick) = "M"
    /\ InRange(state) /\ AmpRange(config, state)
    /\ Microtick(phase_M(config, clear_flags(state), microtick))

\* an R microtick that leaves the switch without reaching emit_outputs
MicrotickR_no_emit ==
    /\ pc = "loop" /\ tick <= config.ticks
    /\ phase_of(microtick) = "R"
    /\ state' = phase_R(config, clear_flags(state), microtick).state
    /\ loc' = phase_R(config, clear_flags(state), microtick).loc @@ [pre |-> state]
    /\ microtick' = microtick + 1
    /\ UNCHANGED <<config, pc, outputs, tick, obs, nObs, eventsRows, valuesRows,
                   observerCalls>>

MicrotickR ==
    /\ pc = "loop" /\ tick <= config.ticks
    /\ phase_of(microtick) = "R"
    /\ Microtick(phase_R(config, clear_flags(state), microtick))

\* the tick loop ends, state_clear, return
LoopExit ==
    /\ pc = "loop" /\ tick > config.ticks
    /\ pc' = "done"
    /\ UNCHANGED <<config, state, outputs, tick, microtick, obs, nObs, eventsRows,
                   valuesRows, observerCalls, loc>>

Next == simulate \/ simulate_fopen_fails \/ simulate_stream
        \/ MicrotickE \/ MicrotickM \/ MicrotickR \/ LoopExit

Spec == Init /\ [][Next]_vars

TypeOK == pc \in {"entry", "loop", "done", "io_failed"}

(***************************************************************************)
(* Properties.                                                             *)
(***************************************************************************)
ObsIndex == 11 * (obs.tick - 1) + obs.microtick

\* C1: a run emits exactly one observation per microtick, in the order
\* tick 1..N and microtick 1..11 within a tick, none skipped or repeated
\* also when the engine step or psi fails; when the loop has ended 11*N
\* observations were emitted, which for simulate are 11*N rows in each
\* CSV file and for simulate_stream 11*N observer calls.
C1_OneObservationPerMicrotick ==
    /\ [](nObs > 0 => /\ obs.tick \in 1..config.ticks
                      /\ obs.microtick \in 1..11
                      /\ nObs = ObsIndex)
    /\ [](pc = "done" =>
            /\ nObs = 11 * config.ticks
            /\ outputs = "files" =>
                 eventsRows = nObs /\ valuesRows = nObs /\ observerCalls = 0
            /\ outputs = "observer" =>
                 observerCalls = nObs /\ eventsRows = 0 /\ valuesRows = 0)
    /\ [][\/ (nObs' = nObs /\ obs' = obs)
          \/ /\ nObs' = nObs + 1
             /\ obs'.tick = tick /\ obs'.microtick = microtick
             /\ (microtick < 11 => tick' = tick /\ microtick' = microtick + 1)
             /\ (microtick = 11 => tick' = tick + 1 /\ microtick' = 1)]_vars

\* a simulate run of at least one tick has ended after a last microtick
\* whose requested psi did not fire
C1_Witness ==
    /\ pc = "done" /\ config.ticks >= 1 /\ outputs = "files"
    /\ eventsRows = 11 * config.ticks /\ valuesRows = 11 * config.ticks
    /\ loc.request_psi /\ loc.allow_stack /\ ~obs.psi_fired

\* the State before the microtick of the last observation
pre == loc.pre

\* the engine is the plain ADD of both tracks, no optional engine feature
PlainAdd ==
    /\ config.engine_mode = "ADD" /\ ~config.dual_track_mode
    /\ ~config.enable_asymmetric_cascade /\ ~config.enable_stack_depth_modes
    /\ ~config.enable_koppa_gated_engine /\ ~config.enable_delta_cross_propagation
    /\ ~config.enable_sign_flip /\ ~config.enable_modular_wrap

\* a/b + c/d as the cross-multiplied pair (ad + bc)/(bd)
RawSum(a, b) == <<Num(a) * Den(b) + Num(b) * Den(a), Den(a) * Den(b)>>

\* C2: no arithmetic path reduces a rational: after an E microtick of the
\* plain ADD engine, upsilon and beta are exactly the cross-multiplied pairs
\* of current + counterpart + koppa, with no GCD taken out (34/28, not 17/14,
\* from the seeds 2/4, 5/7, 0/1), and after a triggered accrual in DUMP mode
\* koppa is exactly the cross-multiplied pair of 0/1 + (upsilon + beta).
C2_NoReduction ==
    /\ (nObs > 0 /\ obs.phase = "E" /\ PlainAdd)
           => /\ state.upsilon = RawSum(RawSum(pre.upsilon, pre.beta), pre.koppa)
              /\ state.beta = RawSum(RawSum(pre.beta, pre.upsilon), pre.koppa)
    /\ (nObs > 0 /\ loc.trigger /\ config.koppa_mode = "DUMP"
        /\ Fits(state.upsilon) /\ Fits(state.beta))
           => state.koppa = RawSum(<<0, 1>>, RawSum(state.upsilon, state.beta))

\* the first E observation from the seeds 2/4, 5/7, 0/1 holds the reduced 17/14
C2_Witness ==
    /\ nObs = 1 /\ PlainAdd
    /\ config.initial_upsilon = <<2, 4>> /\ config.initial_beta = <<5, 7>>
    /\ config.initial_koppa = <<0, 1>>
    /\ state.upsilon = <<17, 14>>

\* the Config of the first end-to-end scenario
Scenario1 == config = BaseConfig

\* C3: in the first end-to-end scenario the engine step of microtick 1
\* updates upsilon and beta alike to 81/35 (epsilon 3/5, no rho event); at
\* microtick 2 psi fires and inverts the equal pair, so upsilon and beta
\* have numerator equal to denominator, and koppa has the value of
\* upsilon + beta, which is 2; at microtick 3 nothing accrues and upsilon,
\* beta and koppa are as at microtick 2.
C3_Scenario ==
    (Scenario1 /\ nObs > 0) =>
        /\ obs.microtick = 1 =>
              /\ state.upsilon = <<81, 35>> /\ state.beta = <<81, 35>>
              /\ state.epsilon = <<3, 5>> /\ ~obs.rho_event
        /\ obs.microtick = 2 =>
              /\ obs.psi_fired
              /\ Num(state.upsilon) = Den(state.upsilon)
              /\ Num(state.beta) = Den(state.beta)
              /\ Num(state.koppa) = 2 * Den(state.koppa)
        /\ obs.microtick = 3 =>
              /\ ~loc.trigger
              /\ state.upsilon = pre.upsilon /\ state.beta = pre.beta
              /\ state.koppa = pre.koppa

C3_Witness ==
    /\ Scenario1 /\ nObs = 3 /\ obs.microtick = 3
    /\ Num(state.koppa) = 2 * Den(state.koppa)

\* the scenario with the values the specification lists
C3_ScenarioAsSpecified ==
    (Scenario1 /\ nObs > 0) =>
        /\ obs.microtick = 1 =>
              /\ state.upsilon = <<81, 35>> /\ state.epsilon = <<3, 5>> /\ ~obs.rho_event
        /\ obs.microtick = 2 =>
              /\ obs.psi_fired
              /\ state.upsilon = <<175, 567>> /\ state.beta = <<567, 175>>
              /\ state.koppa = <<175 * 175 + 567 * 567, 567 * 175>>
        /\ obs.microtick = 3 =>
              /\ ~loc.trigger
              /\ state.upsilon = pre.upsilon /\ state.beta = pre.beta
              /\ state.koppa = pre.koppa

\* the fields a failed engine_step is said to leave alone, the deltas apart
EngineFields ==
    {"upsilon", "beta", "koppa", "previous_upsilon", "previous_beta",
     "triangle_phi_over_epsilon", "triangle_prev_over_phi",
     "triangle_epsilon_over_prev", "sign_flip_polarity"}

\* a and b are the same rational
SameValue(a, b) == Num(a) * Den(b) = Num(b) * Den(a)

\* C4: a failed engine_step (a SLIDE track with the numerator of koppa 0)
\* returns false and leaves upsilon, beta, koppa, the previous values, the
\* deltas (compared here as rationals), the triangle ratios and the
\* sign-flip polarity as they were, and the run goes on with the next
\* microtick.
C4_FailedStepLeavesState ==
    (nObs > 0 /\ obs.phase = "E" /\ ~loc.engine_ok) =>
        /\ \A f \in EngineFields : state[f] = pre[f]
        /\ SameValue(state.delta_upsilon, pre.delta_upsilon)
        /\ SameValue(state.delta_beta, pre.delta_beta)
        /\ pc = "loop" /\ tick = obs.tick /\ microtick = obs.microtick + 1

\* a failed step after which the polarity has toggled and upsilon has not moved
C4_Witness ==
    /\ nObs > 0 /\ obs.phase = "E" /\ ~loc.engine_ok
    /\ state.upsilon = pre.upsilon /\ state.beta = pre.beta
    /\ state.sign_flip_polarity # pre.sign_flip_polarity

\* C5: in every reachable state 0 <= koppa_stack_size <= 4.
C5_StackSizeBounded == state.koppa_stack_size \in 0..4

\* a triggered accrual that pushed onto the full stack
C5_Witness ==
    /\ nObs > 0 /\ config.multi_level_koppa /\ loc.trigger
    /\ pre.koppa_stack_size = 4 /\ state.koppa_stack_size = 4
    /\ state.koppa_stack[4] = pre.koppa

\* C6: with enable_stack_depth_modes, psi fires in an M microtick only if
\* the stack size at the start of that microtick was 2 or 4, even when a
\* ratio window or the ratio threshold requests psi.
C6_StackGate ==
    (nObs > 0 /\ obs.phase = "M" /\ config.enable_stack_depth_modes /\ obs.psi_fired)
        => pre.koppa_stack_size \in {2, 4}

\* psi fired at depth 2 under the gate
C6_Witness ==
    /\ nObs > 0 /\ obs.phase = "M" /\ config.enable_stack_depth_modes
    /\ obs.psi_fired /\ pre.koppa_stack_size = 2

\* C7: whenever psi fired in a microtick, the State of that observation has
\* psi_recent true and rho_pending false.
C7_PostFire ==
    (nObs > 0 /\ obs.psi_fired) => (state.psi_recent /\ ~state.rho_pending)

\* psi fired from a pending rho with the strength amplification applied
C7_Witness ==
    /\ nObs > 0 /\ obs.psi_fired /\ pre.rho_pending
    /\ state.psi_strength_applied /\ state.psi_recent /\ ~state.rho_pending

\* C8: in RHO_ONLY and MSTEP_RHO psi fires in an M microtick only if
\* rho_pending was true and the tick of the simulation loop is one of the
\* Fibonacci ticks.
C8_FibonacciTickGate ==
    (nObs > 0 /\ obs.phase = "M" /\ obs.psi_fired
     /\ config.psi_mode \in {"RHO_ONLY", "MSTEP_RHO"})
        => (pre.rho_pending /\ is_fibonacci_tick(obs.tick))

\* psi fired in RHO_ONLY during tick 1 of the loop
C8_Witness ==
    /\ nObs > 0 /\ obs.phase = "M" /\ obs.psi_fired
    /\ config.psi_mode = "RHO_ONLY" /\ pre.rho_pending /\ obs.tick = 1

\* C9: in INHIBIT_RHO psi fires on an M microtick exactly when rho_pending
\* is false: it fires when rho_pending is false, the stack gate is open and
\* the numerators of upsilon and beta are nonzero, and it does not fire when
\* rho_pending is true and no ratio trigger holds.
C9_InhibitRho ==
    (nObs > 0 /\ obs.phase = "M" /\ config.psi_mode = "INHIBIT_RHO") =>
        /\ (~pre.rho_pending /\ loc.allow_stack
            /\ Num(pre.upsilon) # 0 /\ Num(pre.beta) # 0) => obs.psi_fired
        /\ (pre.rho_pending /\ ~loc.ratio_triggered /\ ~loc.ratio_threshold)
               => ~obs.psi_fired

\* psi was requested in INHIBIT_RHO with no pending rho and did not fire
C9_Witness ==
    /\ nObs > 0 /\ obs.phase = "M" /\ config.psi_mode = "INHIBIT_RHO"
    /\ ~pre.rho_pending /\ loc.allow_stack /\ loc.request_psi
    /\ Num(pre.upsilon) # 0 /\ Num(pre.beta) # 0
    /\ ~obs.psi_fired

\* C10: a ratio trigger force-fires psi: on every M microtick where
\* ratio_in_range or ratio_threshold_outside is true, the stack gate is open
\* and the numerators of upsilon and beta are nonzero, psi fires, whatever
\* psi_mode, rho_pending and the tick are.
C10_RatioForceFires ==
    (nObs > 0 /\ obs.phase = "M" /\ (loc.ratio_triggered \/ loc.ratio_threshold)
     /\ loc.allow_stack /\ Num(pre.upsilon) # 0 /\ Num(pre.beta) # 0)
        => obs.psi_fired

\* a ratio window held in RHO_ONLY with no pending rho, and psi did not fire
C10_Witness ==
    /\ nObs > 0 /\ obs.phase = "M" /\ loc.ratio_triggered /\ loc.allow_stack
    /\ config.psi_mode = "RHO_ONLY" /\ ~pre.rho_pending
    /\ Num(pre.upsilon) # 0 /\ Num(pre.beta) # 0
    /\ ~obs.psi_fired

\* C11: with mt10_behavior = FORCED_PSI, microtick 10 of every tick ends
\* with rho_pending and rho_latched set whatever the pattern test gave and
\* applies no psi itself, and the psi it forces fires in microtick 11 of the
\* same tick whenever the stack gate is open and the numerators of upsilon
\* and beta are nonzero.
C11_ForcedPsi ==
    (nObs > 0 /\ config.mt10_behavior = "FORCED_PSI") =>
        /\ obs.microtick = 10 =>
               (state.rho_pending /\ state.rho_latched /\ ~obs.psi_fired)
        /\ (obs.microtick = 11 /\ loc.allow_stack
            /\ Num(pre.upsilon) # 0 /\ Num(pre.beta) # 0) => obs.psi_fired

\* microtick 11 entered with the rho that microtick 10 forced without a pattern
C11_Witness ==
    /\ nObs > 0 /\ config.mt10_behavior = "FORCED_PSI"
    /\ obs.microtick = 11 /\ pre.rho_pending /\ pre.rho_latched
    /\ loc.allow_stack /\ Num(pre.upsilon) # 0 /\ Num(pre.beta) # 0

\* C12: in psi_mode MSTEP psi fires on every M microtick in which the stack
\* gate is open and the transform can be applied (numerators of upsilon and
\* beta nonzero, and of koppa when the triple mode is selected), whether or
\* not rho is pending, at every tick and every strength.
C12_MstepAlwaysFires ==
    (nObs > 0 /\ obs.phase = "M" /\ config.psi_mode = "MSTEP" /\ loc.allow_stack
     /\ Num(pre.upsilon) # 0 /\ Num(pre.beta) # 0
     /\ (config.triple_psi_mode => Num(pre.koppa) # 0)) => obs.psi_fired

\* an MSTEP psi fired with no rho pending
C12_Witness ==
    /\ nObs > 0 /\ obs.phase = "M" /\ config.psi_mode = "MSTEP"
    /\ ~pre.rho_pending /\ obs.psi_fired

\* the M microtick applied one standard transform and nothing else to the pair
StandardFired ==
    /\ nObs > 0 /\ obs.phase = "M" /\ obs.psi_fired
    /\ ~state.psi_triple_recent /\ ~state.psi_strength_applied

\* the pair n/d as stored, the sign carried by either component
Stored(r, n, d) == r = <<n, d>> \/ r = <<-n, -d>>

\* C13: a standard psi on upsilon = un/ud, beta = bn/bd with un, bn nonzero
\* stores upsilon = (bn*ud)/(bd*un) and beta = (un*bd)/(ud*bn), the raw
\* products with no common factor taken out, and leaves koppa as it was;
\* (3/5, 5/7) becomes (25/21, 21/25).
C13_StandardPsi ==
    /\ StandardFired =>
          /\ Stored(state.upsilon, Num(pre.beta) * Den(pre.upsilon),
                                   Den(pre.beta) * Num(pre.upsilon))
          /\ Stored(state.beta, Num(pre.upsilon) * Den(pre.beta),
                                Den(pre.upsilon) * Num(pre.beta))
          /\ ~loc.trigger => state.koppa = pre.koppa
    /\ LET r == standard_psi(state_reset(BaseConfig, 0))
       IN  /\ r.ok
           /\ r.state.upsilon = <<25, 21>>
           /\ r.state.beta = <<21, 25>>
           /\ r.state.koppa = <<1, 1>>

\* a standard psi fired on a pair whose products have a common factor
C13_Witness ==
    /\ StandardFired /\ ~loc.trigger
    /\ GCD(Abs(Num(state.upsilon)), Abs(Den(state.upsilon))) > 1

\* C14: whenever psi fires, phi is the value upsilon had immediately before
\* the transform, in every observation with psi_fired = true.
C14_PhiSnapshot ==
    (nObs > 0 /\ obs.psi_fired) => state.phi = pre.upsilon

\* psi fired on an upsilon that differs from the phi seeded at reset
C14_Witness ==
    /\ nObs > 0 /\ obs.psi_fired
    /\ pre.upsilon # pre.phi

\* the M microtick applied one triple transform and nothing else
TripleFired ==
    /\ nObs > 0 /\ obs.phase = "M" /\ obs.psi_fired
    /\ state.psi_triple_recent /\ ~state.psi_strength_applied

\* upsilon and beta are the triple transform of the values the microtick entered with
TripleOfPre ==
    /\ Stored(state.upsilon, Num(pre.beta) * Den(pre.koppa), Den(pre.beta) * Num(pre.koppa))
    /\ Stored(state.beta, Num(pre.koppa) * Den(pre.upsilon), Den(pre.koppa) * Num(pre.upsilon))

\* C15: a triple psi on upsilon, beta, koppa with nonzero numerators stores
\* upsilon = (num(beta)*den(koppa))/(den(beta)*num(koppa)),
\* beta = (num(koppa)*den(upsilon))/(den(koppa)*num(upsilon)) and
\* koppa = (num(koppa)*den(beta))/(den(koppa)*num(beta)), all from the
\* components before the transform and with no common factor taken out;
\* (2/3, 3/5, 5/7) becomes (21/25, 15/14, 25/21).
C15_TriplePsi ==
    /\ TripleFired =>
          /\ TripleOfPre
          /\ ~loc.trigger => Stored(state.koppa, Num(pre.koppa) * Den(pre.beta),
                                                 Den(pre.koppa) * Num(pre.beta))
    /\ LET r == triple_psi([state_reset(BaseConfig, 0) EXCEPT
                               !.upsilon = <<2, 3>>, !.beta = <<3, 5>>, !.koppa = <<5, 7>>])
       IN  /\ r.ok
           /\ r.state.upsilon = <<21, 25>>
           /\ r.state.beta = <<15, 14>>
           /\ r.state.koppa = <<25, 21>>

\* one triple transform fired, no accrual after it, on an upsilon that is
\* not 1/1 (so that the new beta tells the snapshot from the updated value)
C15_Witness ==
    /\ TripleFired /\ ~loc.trigger
    /\ Num(pre.upsilon) # Den(pre.upsilon)
    /\ Num(pre.beta) * Den(pre.koppa) # Den(pre.beta) * Num(pre.koppa)

AllPrime(s) ==
    numerator_is_prime(s.upsilon) /\ numerator_is_prime(s.beta) /\ numerator_is_prime(s.koppa)

\* C16: with enable_conditional_triple_psi, a psi that fires while the
\* numerators of upsilon, beta and koppa are all prime applies the triple
\* variant and the observation of that microtick has psi_triple_recent;
\* psi_triple_recent is true in an observation only if a triple transform
\* fired in that microtick.  With (2/1, 3/1, 5/1) the psi is triple.
C16_ConditionalTriple ==
    /\ (nObs > 0 /\ obs.phase = "M" /\ config.enable_conditional_triple_psi
        /\ obs.psi_fired /\ AllPrime(pre))
          => /\ state.psi_triple_recent
             /\ ~state.psi_strength_applied => TripleOfPre
    /\ state.psi_triple_recent
          => /\ nObs > 0 /\ obs.phase = "M" /\ obs.psi_fired
             /\ Num(pre.koppa) # 0
             /\ ~state.psi_strength_applied => TripleOfPre
    /\ LET r == psi_transform([BaseConfig EXCEPT !.enable_conditional_triple_psi = TRUE],
                              [state_reset(BaseConfig, 0) EXCEPT
                                  !.upsilon = <<2, 1>>, !.beta = <<3, 1>>, !.koppa = <<5, 1>>])
       IN  /\ r.fired
           /\ r.state.psi_triple_recent
           /\ r.state.upsilon = <<3, 5>>

\* the conditional rule alone selected the triple variant
C16_Witness ==
    /\ nObs > 0 /\ obs.phase = "M" /\ obs.psi_fired
    /\ config.enable_conditional_triple_psi /\ ~config.triple_psi_mode
    /\ AllPrime(pre) /\ ~state.psi_strength_applied
    /\ state.psi_triple_recent

\* psi_transform was called in the M microtick
PsiAttempted == nObs > 0 /\ obs.phase = "M" /\ loc.request_psi /\ loc.allow_stack

\* the transform psi_transform would select cannot be applied
CannotApply ==
    \/ Num(pre.upsilon) = 0
    \/ Num(pre.beta) = 0
    \/ (config.triple_psi_mode /\ Num(pre.koppa) = 0)

\* C17: a psi attempted while the numerator of upsilon or beta is 0 (or of
\* koppa for the triple mode) changes none of upsilon, beta, koppa and phi,
\* the observation of the microtick reports psi_fired = false and
\* psi_recent = false, and the loop goes on to the next microtick (it ends
\* only after microtick 11 of the last tick).
C17_FailedPsiNoOp ==
    (PsiAttempted /\ CannotApply) =>
        /\ ~obs.psi_fired /\ ~state.psi_recent
        /\ state.upsilon = pre.upsilon /\ state.beta = pre.beta /\ state.phi = pre.phi
        /\ ~loc.trigger => state.koppa = pre.koppa
        /\ pc \in {"loop", "done"}
        /\ pc = "done" => (obs.tick = config.ticks /\ obs.microtick = 11)
        /\ obs.microtick < 11 => (microtick = obs.microtick + 1 /\ tick = obs.tick)
        /\ obs.microtick = 11 => (microtick = 1 /\ tick = obs.tick + 1)

\* an MSTEP psi attempted on a zero numerator
C17_Witness ==
    /\ PsiAttempted /\ CannotApply
    /\ config.psi_mode = "MSTEP"

\* every rational of State
Rationals(s) ==
    { s.upsilon, s.beta, s.koppa, s.epsilon, s.phi, s.previous_upsilon, s.previous_beta,
      s.delta_upsilon, s.delta_beta, s.triangle_phi_over_epsilon, s.triangle_prev_over_phi,
      s.triangle_epsilon_over_prev, s.koppa_sample }
    \cup { s.koppa_stack[i] : i \in 1..4 }

C20_LatchClearedAfterMR ==
    /\ (nObs > 0 /\ obs.phase \in {"M", "R"}) => ~state.rho_latched
    /\ state.rho_latched => (nObs > 0 /\ obs.phase = "E")

\* an M microtick entered with the latch set in which no psi fired
C20_Witness ==
    /\ nObs > 0 /\ obs.phase = "M" /\ pre.rho_latched /\ ~obs.psi_fired
    /\ ~state.rho_latched

\* C21: the phase of an observation is decided by its microtick alone: E at
\* 1, 4, 7, 10, M at 2, 5, 8, 11, R at 3, 6, 9; the E work (the epsilon
\* snapshot) is done in the E microticks and in no other.
C21_PhaseSchedule ==
    nObs > 0 =>
        /\ obs.phase \in {"E", "M", "R"}
        /\ obs.phase = "E" <=> obs.microtick \in {1, 4, 7, 10}
        /\ obs.phase = "M" <=> obs.microtick \in {2, 5, 8, 11}
        /\ obs.phase = "R" <=> obs.microtick \in {3, 6, 9}
        /\ obs.microtick \in {1, 4, 7, 10} => state.epsilon = pre.upsilon
        /\ obs.microtick \notin {1, 4, 7, 10} => state.epsilon = pre.epsilon

\* microtick 10 observed as an E phase that moved epsilon
C21_Witness ==
    /\ nObs > 0 /\ obs.microtick = 10 /\ obs.phase = "E"
    /\ state.epsilon # pre.epsilon

\* a rational as a value: its lowest terms
Val(r) == mpq_canonicalize(r)

\* the value of a + b
ValSum(a, b) == Val(mpq_add(a, b))

\* the base the koppa mode resets koppa to before the accrual term
AccrualBase ==
    CASE config.koppa_mode = "DUMP" -> <<0, 1>>
      [] config.koppa_mode = "POP" -> pre.epsilon
      [] config.koppa_mode = "ACCUMULATE" -> ValSum(loc.accrual_koppa, pre.epsilon)

\* C22: whenever the accrual triggers, the koppa of the observation has the
\* value base + (upsilon + beta), upsilon and beta being the values after
\* any psi of the microtick, and base 0/1 for DUMP, epsilon for POP and the
\* koppa before the accrual + epsilon for ACCUMULATE.
C22_AccrualValue ==
    (nObs > 0 /\ loc.trigger) =>
        /\ obs.phase = "M"
        /\ Val(state.koppa) = ValSum(AccrualBase, ValSum(state.upsilon, state.beta))

\* an ACCUMULATE accrual after a triple psi that changed koppa
C22_Witness ==
    /\ nObs > 0 /\ loc.trigger /\ config.koppa_mode = "ACCUMULATE"
    /\ obs.psi_fired /\ state.psi_triple_recent
    /\ loc.accrual_koppa # pre.koppa /\ Num(pre.epsilon) # 0

\* C23: when the koppa trigger does not hold, the accrual step leaves koppa,
\* the stack and its size unchanged; every R microtick leaves upsilon, beta,
\* koppa, the stack, epsilon and phi as they were, for every koppa_trigger.
C23_NoTriggerFrame ==
    /\ (nObs > 0 /\ obs.phase \in {"M", "R"} /\ ~loc.trigger) =>
          /\ state.koppa = loc.accrual_koppa
          /\ state.koppa_stack = pre.koppa_stack
          /\ state.koppa_stack_size = pre.koppa_stack_size
    /\ (nObs > 0 /\ obs.phase = "R") =>
          /\ ~loc.trigger
          /\ state.upsilon = pre.upsilon /\ state.beta = pre.beta
          /\ state.koppa = pre.koppa
          /\ state.koppa_stack = pre.koppa_stack
          /\ state.koppa_stack_size = pre.koppa_stack_size
          /\ state.epsilon = pre.epsilon /\ state.phi = pre.phi

\* an R microtick under ON_ALL_MU, after accruals filled part of the stack
C23_Witness ==
    /\ nObs > 0 /\ obs.phase = "R" /\ config.koppa_trigger = "ON_ALL_MU"
    /\ state.koppa_stack_size > 0 /\ Num(state.koppa) # 0

\* C24: with multi_level_koppa on, a triggered accrual pushes the koppa it
\* was handed: below size 4 at index size, the size growing by one; at size
\* 4 the slots 1..3 move to 0..2 and the value lands at index 3.  With
\* multi_level_koppa off nothing is ever pushed.
C24_StackPush ==
    /\ (nObs > 0 /\ loc.trigger /\ config.multi_level_koppa) =>
          IF pre.koppa_stack_size < 4
          THEN /\ state.koppa_stack_size = pre.koppa_stack_size + 1
               /\ state.koppa_stack =
                      [pre.koppa_stack EXCEPT ![pre.koppa_stack_size + 1] = loc.accrual_koppa]
          ELSE /\ state.koppa_stack_size = 4
               /\ state.koppa_stack = <<pre.koppa_stack[2], pre.koppa_stack[3],
                                        pre.koppa_stack[4], loc.accrual_koppa>>
    /\ ~config.multi_level_koppa =>
          /\ state.koppa_stack_size = 0
          /\ state.koppa_stack = <<state_zero, state_zero, state_zero, state_zero>>

\* a push onto a full stack whose slots differ
C24_Witness ==
    /\ nObs > 0 /\ loc.trigger /\ config.multi_level_koppa
    /\ pre.koppa_stack_size = 4
    /\ pre.koppa_stack[1] # pre.koppa_stack[2]
    /\ pre.koppa_stack[4] # loc.accrual_koppa

\* C25: in every observation the sample fields follow the sampling rule:
\* with multi_level_koppa on, at microtick 11 with a non-empty stack the
\* index is 0 and the sample is slot 0 of the stack, at microtick 5 with
\* more than two entries the index is 2 and the sample is slot 2; in every
\* other observation, E and R included, the index is -1 and the sample is
\* the koppa of that observation.
C25_SampleConsistent ==
    nObs > 0 =>
        IF config.multi_level_koppa /\ obs.microtick = 11 /\ state.koppa_stack_size > 0
        THEN state.koppa_sample_index = 0 /\ state.koppa_sample = state.koppa_stack[1]
        ELSE IF config.multi_level_koppa /\ obs.microtick = 5 /\ state.koppa_stack_size > 2
        THEN state.koppa_sample_index = 2 /\ state.koppa_sample = state.koppa_stack[3]
        ELSE state.koppa_sample_index = -1 /\ state.koppa_sample = state.koppa

\* an E microtick whose engine step wrapped koppa after the sample was taken
C25_Witness ==
    /\ nObs > 0 /\ obs.phase = "E" /\ config.enable_modular_wrap
    /\ loc.engine_ok /\ state.koppa # pre.koppa
    /\ state.koppa_sample = pre.koppa

\* the sampling rule in the M and R microticks, where the sample is taken
\* after the last write of koppa
C25_SampleAfterAccrual ==
    (nObs > 0 /\ obs.phase \in {"M", "R"}) => C25_SampleConsistent

\* the value the E phase probes for a pattern, read off the observation
C26_Target ==
    IF config.prime_target = "PRIME_ON_MEMORY" THEN state.epsilon ELSE state.upsilon

\* C26: in every E microtick epsilon is the upsilon that entered the
\* microtick and rho_event tells whether the target has a pattern
\* component, the target being epsilon under PRIME_ON_MEMORY and the
\* upsilon after the engine step otherwise; at microticks 1, 4 and 7
\* rho_pending and rho_latched both equal rho_event (PRIME_ON_MEMORY with
\* upsilon 7/2 entering microtick 1 gives rho_pending and rho_event true);
\* the M microtick that follows starts from that rho_pending and decides
\* its psi request on it.
C26_RhoMarking ==
    /\ [](nObs > 0 /\ obs.phase = "E" =>
            /\ state.epsilon = pre.upsilon
            /\ obs.rho_event = mpq_has_pattern_component(config, C26_Target)
            /\ obs.microtick \in {1, 4, 7} =>
                  /\ state.rho_pending = obs.rho_event
                  /\ state.rho_latched = obs.rho_event
            /\ (config.prime_target = "PRIME_ON_MEMORY" /\ obs.microtick = 1
                /\ pre.upsilon = <<7, 2>>) =>
                  state.rho_pending /\ obs.rho_event)
    /\ [](nObs > 0 /\ obs.phase = "M" /\ config.psi_mode = "RHO_ONLY" =>
            (loc.request_psi <=> \/ loc.allow_stack /\ pre.rho_pending
                                 \/ loc.ratio_triggered \/ loc.ratio_threshold))
    /\ [][(nObs > 0 /\ obs.phase = "E" /\ nObs' = nObs + 1) =>
             /\ obs'.phase = "M"
             /\ loc'.pre.rho_pending = state.rho_pending]_vars

\* under PRIME_ON_MEMORY the epsilon 7/2 marks rho at microtick 1 while the
\* upsilon the engine produced has no pattern component
C26_Witness ==
    /\ nObs > 0 /\ obs.microtick = 1 /\ config.prime_target = "PRIME_ON_MEMORY"
    /\ pre.upsilon = <<7, 2>> /\ obs.rho_event /\ state.rho_pending
    /\ ~mpq_has_pattern_component(config, state.upsilon)

\* n is a prime number
PrimeNat(n) == n > 1 /\ \A d \in 2..(n - 1) : n % d # 0

\* the Fibonacci numbers below 233
FibNat(n) == n \in {0, 1, 2, 3, 5, 8, 13, 21, 34, 55, 89, 144}

\* n is a power of r
RECURSIVE IsPowerOf(_, _)
IsPowerOf(n, r) == n = 1 \/ (n % r = 0 /\ IsPowerOf(n \div r, r))

\* n >= 1 is r^k for some k >= 2 (k stays below 64 for every n explored)
PowerNat(n) ==
    n = 1 \/ \E r \in 2..n : r * r <= n /\ n % (r * r) = 0 /\ IsPowerOf(n \div (r * r), r)

\* the pattern test with a perfect-power part that takes positive values only
C27_Pattern(cfg, v) ==
    \/ PrimeNat(Abs(Num(v))) \/ PrimeNat(Abs(Den(v)))
    \/ cfg.enable_fibonacci_trigger /\ (FibNat(Abs(Num(v))) \/ FibNat(Abs(Den(v))))
    \/ /\ cfg.enable_perfect_power_trigger
       /\ \/ Num(v) > 0 /\ PowerNat(Num(v))
          \/ Den(v) > 0 /\ PowerNat(Den(v))

\* the pattern test with every part on magnitudes
C27_PatternOnMagnitudes(cfg, v) ==
    \/ PrimeNat(Abs(Num(v))) \/ PrimeNat(Abs(Den(v)))
    \/ cfg.enable_fibonacci_trigger /\ (FibNat(Abs(Num(v))) \/ FibNat(Abs(Den(v))))
    \/ /\ cfg.enable_perfect_power_trigger
       /\ \/ Num(v) # 0 /\ PowerNat(Abs(Num(v)))
          \/ Den(v) # 0 /\ PowerNat(Abs(Den(v)))

\* C27: has_pattern_component(v) is true iff |num(v)| or |den(v)| is prime,
\* or the Fibonacci trigger is on and |num(v)| or |den(v)| is a Fibonacci
\* number, or the perfect-power trigger is on and num(v) or den(v) is
\* positive and a k-th power, k in 2..64; 2/4 is true, 4/9 is false with
\* primality alone and true with the perfect-power trigger; a negative
\* numerator is judged by its magnitude in the prime and Fibonacci parts
\* and is never a perfect power.
C27_PatternComponent ==
    /\ (nObs > 0 /\ obs.phase = "E" /\ Fits(C26_Target)) =>
           obs.rho_event = C27_Pattern(config, C26_Target)
    /\ mpq_has_pattern_component(BaseConfig, <<2, 4>>)
    /\ ~mpq_has_pattern_component(BaseConfig, <<4, 9>>)
    /\ mpq_has_pattern_component([BaseConfig EXCEPT !.enable_perfect_power_trigger = TRUE],
                                 <<4, 9>>)

\* the perfect-power trigger is on and the probed value has a negative
\* numerator whose magnitude is a perfect power; no rho event is marked
C27_Witness ==
    /\ nObs > 0 /\ obs.phase = "E" /\ config.enable_perfect_power_trigger
    /\ Fits(C26_Target) /\ Num(C26_Target) < 0 /\ PowerNat(-Num(C26_Target))
    /\ ~obs.rho_event

\* the pattern test as stated with magnitudes in the perfect-power part too
C27_PatternComponentOnMagnitudes ==
    (nObs > 0 /\ obs.phase = "E" /\ Fits(C26_Target)) =>
        obs.rho_event = C27_PatternOnMagnitudes(config, C26_Target)

\* lo < u/b < hi on cross products, for b with a nonzero numerator and
\* bounds with positive denominators
C28_Between(lo, hi, u, b) ==
    LET n0 == Num(u) * Den(b)
        d0 == Den(u) * Num(b)
        n  == IF d0 < 0 THEN -n0 ELSE n0
        d  == IF d0 < 0 THEN -d0 ELSE d0
    IN  Num(lo) * d < n * Den(lo) /\ n * Den(hi) < Num(hi) * d

\* the windows of the built-in modes
C28_Window(mode) ==
    CASE mode = "GOLDEN"  -> <<(<<3, 2>>), (<<17, 10>>)>>
      [] mode = "SQRT2"   -> <<(<<13, 10>>), (<<3, 2>>)>>
      [] mode = "PLASTIC" -> <<(<<6, 5>>), (<<7, 5>>)>>

\* membership with a CUSTOM window that needs enable_ratio_custom_range
C28_InWindow(cfg, u, b) ==
    /\ Num(b) # 0
    /\ CASE cfg.ratio_trigger_mode \in {"GOLDEN", "SQRT2", "PLASTIC"} ->
              C28_Between(C28_Window(cfg.ratio_trigger_mode)[1],
                          C28_Window(cfg.ratio_trigger_mode)[2], u, b)
         [] cfg.ratio_trigger_mode = "CUSTOM" ->
              /\ cfg.enable_ratio_custom_range
              /\ C28_Between(cfg.ratio_custom_lower, cfg.ratio_custom_upper, u, b)
         [] OTHER -> FALSE

\* membership with a CUSTOM window taken from the Config unconditionally
C28_InWindowAnyCustom(cfg, u, b) ==
    /\ Num(b) # 0
    /\ CASE cfg.ratio_trigger_mode \in {"GOLDEN", "SQRT2", "PLASTIC"} ->
              C28_Between(C28_Window(cfg.ratio_trigger_mode)[1],
                          C28_Window(cfg.ratio_trigger_mode)[2], u, b)
         [] cfg.ratio_trigger_mode = "CUSTOM" ->
              C28_Between(cfg.ratio_custom_lower, cfg.ratio_custom_upper, u, b)
         [] OTHER -> FALSE

\* a State with the given upsilon and beta
C28_State(u, b) == [state_reset(BaseConfig, 0) EXCEPT !.upsilon = u, !.beta = b]

\* a Config with the given ratio trigger mode
C28_Mode(rm) == [BaseConfig EXCEPT !.ratio_trigger_mode = rm]

C28_CustomTriggers ==
    /\ nObs > 0 /\ obs.phase = "M" /\ config.ratio_trigger_mode = "CUSTOM"
    /\ config.enable_ratio_custom_range /\ loc.ratio_triggered

C29_Observation(res) ==
    <<res.rho_event, res.psi_fired, res.mu_zero, res.forced_emission,
      [f \in (DOMAIN res.state) \ {"tick"} |-> res.state[f]]>>

\* the microtick of the last observation, run again from the same State
\* with the unassigned tick field holding j
C29_Rerun(j) ==
    LET s == clear_flags([pre EXCEPT !.tick = j])
    IN  CASE obs.phase = "E" -> phase_E(config, s, obs.microtick)
          [] obs.phase = "M" -> phase_M(config, s, obs.microtick)
          [] OTHER -> phase_R(config, s, obs.microtick)

\* C29: the simulation is deterministic: the observation of a microtick is
\* decided by the Config and the State fields the run has assigned, so that
\* two runs with equal Configs emit the same observations; no value the run
\* never assigned (the tick field of State that psi_transform reads)
\* influences an observation.
C29_Deterministic ==
    nObs > 0 =>
        \A j \in JunkTicks :
            C29_Observation(C29_Rerun(j)) =
                C29_Observation([state |-> state, rho_event |-> obs.rho_event,
                                 psi_fired |-> obs.psi_fired, mu_zero |-> obs.mu_zero,
                                 forced_emission |-> obs.forced_emission])

\* a rho-gated M microtick with rho pending in which psi did not fire, and
\* fires from the same State when the unassigned field holds 5
C29_Witness ==
    /\ nObs > 0 /\ obs.phase = "M" /\ config.psi_mode = "RHO_ONLY"
    /\ pre.rho_pending /\ loc.allow_stack /\ ~obs.psi_fired
    /\ C29_Rerun(5).psi_fired

\* outside the rho-gated modes the observation does not depend on the
\* unassigned field
C29_DeterministicUngated ==
    (nObs > 0 /\ config.psi_mode \notin {"RHO_ONLY", "MSTEP_RHO"}) => C29_Deterministic

\* C30: the flags of an observation are confined to their phase: psi_fired,
\* mu_zero, ratio_triggered_recent, ratio_threshold_recent,
\* psi_triple_recent and psi_strength_applied can be true only in an M
\* observation, rho_event and dual_engine_last_step only in an E
\* observation, and forced_emission is true iff the microtick is 10; the
\* flags tell what the microtick of the observation did, never what an
\* earlier one did.
C30_FlagsConfined ==
    nObs > 0 =>
        /\ (\/ obs.psi_fired \/ obs.mu_zero
            \/ state.ratio_triggered_recent \/ state.ratio_threshold_recent
            \/ state.psi_triple_recent \/ state.psi_strength_applied)
               => obs.phase = "M"
        /\ (obs.rho_event \/ state.dual_engine_last_step) => obs.phase = "E"
        /\ obs.forced_emission <=> obs.microtick = 10
        /\ obs.phase = "M" =>
              /\ state.ratio_triggered_recent = loc.ratio_triggered
              /\ state.ratio_threshold_recent = loc.ratio_threshold
              /\ obs.mu_zero = (Num(pre.beta) = 0)
              /\ (state.psi_triple_recent \/ state.psi_strength_applied)
                     => (loc.request_psi /\ loc.allow_stack)
        /\ obs.phase = "E" =>
              state.dual_engine_last_step = (config.dual_track_mode /\ loc.engine_ok)

\* an R observation right after an M microtick whose ratio trigger had set
\* its flag
C30_Witness ==
    /\ nObs > 0 /\ obs.phase = "R"
    /\ pre.ratio_triggered_recent /\ ~state.ratio_triggered_recent

\* an E observation of the dual-track engine carries dual_engine_last_step
C30_DualStepSeen ==
    /\ nObs > 0 /\ obs.phase = "E" /\ state.dual_engine_last_step

\* the track mode of track j (1 upsilon, 2 beta) that the layers select
\* for the E microtick of the last observation, the last enabled layer
\* deciding
C31_Expected(j) ==
    IF config.enable_koppa_gated_engine
    THEN (IF Abs(Num(pre.koppa)) < 10 THEN "SLIDE"
          ELSE IF Abs(Num(pre.koppa)) < 100 THEN "MULTI" ELSE "ADD")
    ELSE IF config.enable_stack_depth_modes
    THEN (CASE pre.koppa_stack_size \in {0, 1} -> "ADD"
            [] pre.koppa_stack_size \in {2, 3} -> "MULTI"
            [] pre.koppa_stack_size = 4 -> "SLIDE")
    ELSE IF config.enable_asymmetric_cascade
    THEN (CASE obs.microtick = 1 -> <<"MULTI", "ADD">>
            [] obs.microtick = 4 -> <<"ADD", "SLIDE">>
            [] obs.microtick = 7 -> <<"SLIDE", "MULTI">>
            [] obs.microtick = 10 -> <<"ADD", "ADD">>)[j]
    ELSE IF config.dual_track_mode
    THEN <<config.engine_upsilon, config.engine_beta>>[j]
    ELSE IF config.engine_mode = "DELTA_ADD" THEN "ADD" ELSE config.engine_mode

\* C31: the track modes of an engine step come from the base selection
\* (engine_upsilon and engine_beta in dual-track mode, else engine_mode for
\* both, DELTA_ADD read as ADD), then the asymmetric cascade by microtick,
\* then the stack-depth override, then the koppa magnitude gate, every
\* enabled stage overriding the earlier ones; with the koppa gate enabled
\* both modes depend on |num(koppa)| alone.
C31_TrackModes ==
    (nObs > 0 /\ obs.phase = "E") =>
        /\ loc.modes = <<C31_Expected(1), C31_Expected(2)>>
        /\ config.enable_koppa_gated_engine => loc.modes[1] = loc.modes[2]

\* cascade, stack depth and gate all enabled at microtick 4 with a stack
\* of depth 1: the gate decides MULTI for both tracks
C31_Witness ==
    /\ nObs > 0 /\ obs.microtick = 4
    /\ config.enable_koppa_gated_engine /\ config.enable_stack_depth_modes
    /\ config.enable_asymmetric_cascade
    /\ pre.koppa_stack_size = 1
    /\ loc.modes = <<"MULTI", "MULTI">>

\* the stack depth decides over the cascade
C31_DepthSeen ==
    /\ nObs > 0 /\ obs.phase = "E" /\ ~config.enable_koppa_gated_engine
    /\ config.enable_stack_depth_modes /\ config.enable_asymmetric_cascade
    /\ pre.koppa_stack_size >= 2

\* the gate selects ADD from a koppa numerator of at least 100
C31_GateAddSeen ==
    /\ nObs > 0 /\ obs.phase = "E" /\ config.enable_koppa_gated_engine
    /\ loc.modes = <<"ADD", "ADD">>

\* the value of a - b
ValDiff(a, b) == Val(<<Num(a) * Den(b) - Num(b) * Den(a), Den(a) * Den(b)>>)

\* the value a track mode gives from (current, counterpart, koppa)
C32_Mode(mode, cur, other, k) ==
    CASE mode = "ADD" -> ValSum(ValSum(cur, other), k)
      [] mode = "MULTI" ->
            Val(<<Num(cur) * (Num(other) * Den(k) + Num(k) * Den(other)),
                  Den(cur) * Den(other) * Den(k)>>)
      [] mode = "SLIDE" ->
            Val(<<(Num(cur) * Den(other) + Num(other) * Den(cur)) * Den(k),
                  Den(cur) * Den(other) * Num(k)>>)

\* the step takes the track modes and adjusts the result no further
C32_PlainTracks ==
    /\ ~(config.engine_mode = "DELTA_ADD" /\ ~config.dual_track_mode)
    /\ ~config.enable_delta_cross_propagation
    /\ ~(config.enable_sign_flip /\ config.sign_flip_mode # "NONE")

\* C32: a successful engine step replaces upsilon and beta, each computed
\* from the values before the step: the new upsilon has the value
\* mode(upsilon, beta, koppa) and the new beta the value mode(beta, upsilon,
\* koppa) with the old upsilon (on the steps that take the track modes with
\* no delta-cross and no sign flip); afterwards previous_upsilon and
\* previous_beta are the upsilon and beta from before the step, so that
\* previous_upsilon = epsilon, delta_upsilon has the value upsilon -
\* previous_upsilon, delta_beta the value beta - previous_beta, and
\* dual_engine_last_step = dual_track_mode.
C32_EngineCommit ==
    (nObs > 0 /\ obs.phase = "E" /\ loc.engine_ok) =>
        /\ C32_PlainTracks =>
              /\ Val(state.upsilon) = C32_Mode(loc.modes[1], pre.upsilon, pre.beta, pre.koppa)
              /\ Val(state.beta) = C32_Mode(loc.modes[2], pre.beta, pre.upsilon, pre.koppa)
        /\ state.previous_upsilon = pre.upsilon
        /\ state.previous_beta = pre.beta
        /\ state.previous_upsilon = state.epsilon
        /\ Val(state.delta_upsilon) = ValDiff(state.upsilon, state.previous_upsilon)
        /\ Val(state.delta_beta) = ValDiff(state.beta, state.previous_beta)
        /\ state.dual_engine_last_step = config.dual_track_mode

\* a dual-track step with different modes on the two tracks, whose new
\* beta differs from what the new upsilon as counterpart would give
C32_Witness ==
    /\ nObs > 0 /\ obs.phase = "E" /\ loc.engine_ok /\ C32_PlainTracks
    /\ config.dual_track_mode /\ loc.modes[1] # loc.modes[2]
    /\ state.dual_engine_last_step
    /\ Num(pre.koppa) # 0
    /\ Val(state.beta) # C32_Mode(loc.modes[2], pre.beta, state.upsilon, pre.koppa)

\* C33: with engine_mode DELTA_ADD and dual_track_mode off an engine step
\* never fails, and before the delta-cross and sign-flip adjustments the
\* new upsilon has the value upsilon + (upsilon - previous_upsilon) and the
\* new beta the value beta + (beta - previous_beta), whatever the cascade,
\* the stack depth and the koppa gate select; the track modes decide the
\* step only when this path is not taken.
C33_DeltaAdd ==
    (nObs > 0 /\ obs.phase = "E" /\ config.engine_mode = "DELTA_ADD"
     /\ ~config.dual_track_mode) =>
        /\ loc.engine_ok
        /\ (/\ ~config.enable_delta_cross_propagation
            /\ ~(config.enable_sign_flip /\ config.sign_flip_mode # "NONE")) =>
              /\ Val(state.upsilon) =
                     ValSum(pre.upsilon, ValDiff(pre.upsilon, pre.previous_upsilon))
              /\ Val(state.beta) = ValSum(pre.beta, ValDiff(pre.beta, pre.previous_beta))

\* the koppa gate selects SLIDE from a koppa that is zero, which fails a
\* step that takes the track modes; the delta-add step succeeds
C33_Witness ==
    /\ nObs > 0 /\ obs.phase = "E" /\ config.engine_mode = "DELTA_ADD"
    /\ ~config.dual_track_mode /\ config.enable_koppa_gated_engine
    /\ loc.modes = <<"SLIDE", "SLIDE">> /\ Num(pre.koppa) = 0
    /\ loc.engine_ok

\* a delta-add step with a nonzero delta, the cascade and the stack depth
\* selecting other modes
C33_DeltaMoved ==
    /\ nObs > 0 /\ obs.phase = "E" /\ config.engine_mode = "DELTA_ADD"
    /\ ~config.dual_track_mode /\ config.enable_asymmetric_cascade
    /\ config.enable_stack_depth_modes
    /\ Val(state.upsilon) # Val(pre.upsilon)

\* the E microtick of the last observation counted from the start of the run
C34_StepIndex == 4 * (obs.tick - 1) + (obs.microtick + 2) \div 3

\* -v
C34_Neg(v) == <<-Num(v), Den(v)>>

\* the new pair of the last step is the pair of the track modes, negated or not
C34_Pair(negated) ==
    LET u == C32_Mode(loc.modes[1], pre.upsilon, pre.beta, pre.koppa)
        b == C32_Mode(loc.modes[2], pre.beta, pre.upsilon, pre.koppa)
    IN  /\ Val(state.upsilon) = IF negated THEN C34_Neg(u) ELSE u
        /\ Val(state.beta) = IF negated THEN C34_Neg(b) ELSE b

\* a successful step on the track modes with no delta-cross
C34_Visible ==
    /\ loc.engine_ok /\ ~config.enable_delta_cross_propagation
    /\ ~(config.engine_mode = "DELTA_ADD" /\ ~config.dual_track_mode)

\* C34: with sign flip enabled, under ALTERNATE the polarity starts false
\* and toggles on every engine step, and the new upsilon and beta are
\* negated exactly on the steps entered with polarity false, which are the
\* 1st, 3rd, 5th ... E microtick of the run; under ALWAYS both are negated
\* on every step; under NONE nothing is negated and the polarity is false
\* in every observation.  No M or R microtick moves the polarity.
C34_SignFlip ==
    (nObs > 0 /\ config.enable_sign_flip) =>
        /\ obs.phase # "E" => state.sign_flip_polarity = pre.sign_flip_polarity
        /\ (obs.phase = "E" /\ config.sign_flip_mode = "ALTERNATE") =>
              /\ state.sign_flip_polarity = ~pre.sign_flip_polarity
              /\ ~pre.sign_flip_polarity <=> C34_StepIndex % 2 = 1
              /\ C34_Visible => C34_Pair(~pre.sign_flip_polarity)
        /\ (obs.phase = "E" /\ config.sign_flip_mode = "ALWAYS") =>
              (C34_Visible => C34_Pair(TRUE))
        /\ config.sign_flip_mode = "NONE" =>
              /\ ~state.sign_flip_polarity
              /\ (obs.phase = "E" /\ C34_Visible) => C34_Pair(FALSE)

\* the third engine step of an ALTERNATE run negates a nonzero pair, after
\* a second step that did not
C34_Witness ==
    /\ nObs > 0 /\ obs.phase = "E" /\ config.enable_sign_flip
    /\ config.sign_flip_mode = "ALTERNATE" /\ C34_StepIndex = 3
    /\ C34_Visible /\ ~pre.sign_flip_polarity /\ state.sign_flip_polarity
    /\ Num(state.upsilon) # 0 /\ Num(state.beta) # 0

\* an ALTERNATE step that failed toggled the polarity all the same
C34_FailedStepToggles ==
    /\ nObs > 0 /\ obs.phase = "E" /\ config.enable_sign_flip
    /\ config.sign_flip_mode = "ALTERNATE" /\ ~loc.engine_ok
    /\ state.sign_flip_polarity # pre.sign_flip_polarity

\* how many of the numerators of upsilon, beta and koppa are prime
C35_Count(s) ==
    LET one(v) == IF PrimeNat(Abs(Num(v))) THEN 1 ELSE 0
    IN  one(s.upsilon) + one(s.beta) + one(s.koppa)

\* the number of transforms a firing psi of the last microtick applies
C35_Strength ==
    IF config.enable_psi_strength_parameter /\ pre.rho_pending /\ C35_Count(pre) > 1
    THEN C35_Count(pre) ELSE 1

\* the transform of iteration i out of n, applied to s
C35_Step(i, n, s) ==
    IF \/ config.triple_psi_mode
       \/ config.enable_conditional_triple_psi /\ C35_Count(s) = 3
       \/ n >= 3 /\ i = n - 3
    THEN triple_psi(s).state ELSE standard_psi(s).state

\* upsilon, beta and koppa after n transforms in sequence from s
C35_Applied(n, s) ==
    LET s1 == C35_Step(0, n, s)
        s2 == C35_Step(1, n, s1)
        s3 == C35_Step(2, n, s2)
        out(r) == <<r.upsilon, r.beta, r.koppa>>
    IN  CASE n = 1 -> out(s1)
          [] n = 2 -> out(s2)
          [] n = 3 -> out(s3)

\* C35: when enable_psi_strength_parameter is set and rho_pending holds as
\* psi starts, a firing psi applies the transform max(1, c) times in
\* sequence, c being the number of prime numerators among upsilon, beta and
\* koppa counted once before the first application; otherwise it applies
\* the transform once.  With strength 3 the iteration of index 0 is a
\* triple transform.  The koppa compared is the one handed to the accrual.
C35_Strength_Applications ==
    (nObs > 0 /\ obs.phase = "M" /\ obs.psi_fired) =>
        /\ <<state.upsilon, state.beta, loc.accrual_koppa>> = C35_Applied(C35_Strength, pre)
        /\ state.psi_strength_applied = (C35_Strength > 1)
        /\ C35_Strength >= 3 => state.psi_triple_recent

\* a psi of strength 3 in a Config with no triple mode: three transforms,
\* the first of them a triple
C35_Witness ==
    /\ nObs > 0 /\ obs.phase = "M" /\ obs.psi_fired
    /\ C35_Strength = 3 /\ ~config.triple_psi_mode /\ ~config.enable_conditional_triple_psi
    /\ state.psi_triple_recent
    /\ <<state.upsilon, state.beta>> # <<pre.upsilon, pre.beta>>

\* a psi of strength 2: the standard transform twice
C35_TwiceSeen ==
    /\ nObs > 0 /\ obs.phase = "M" /\ obs.psi_fired
    /\ C35_Strength = 2 /\ ~state.psi_triple_recent

\* the stack can grow without a psi: multi_level_koppa with ON_ALL_MU
C36_StackCanGrow == config.multi_level_koppa /\ config.koppa_trigger = "ON_ALL_MU"

\* C36: with enable_stack_depth_modes set, psi never fires unless
\* multi_level_koppa is set and koppa_trigger is ON_ALL_MU: with ON_PSI or
\* ON_MU_AFTER_PSI, or with multi_level_koppa off, the stack size is 0 in
\* every state of the run, the stack gate is closed in every M microtick
\* and psi_fired is false in every observation.
C36_DepthGateStarves ==
    (config.enable_stack_depth_modes /\ ~C36_StackCanGrow) =>
        /\ state.koppa_stack_size = 0
        /\ nObs > 0 => ~obs.psi_fired
        /\ (nObs > 0 /\ obs.phase = "M") => ~loc.allow_stack

\* an M microtick of an MSTEP run under ON_PSI with the stack in use: psi
\* is requested, the pair could be transformed, the gate is closed
C36_Witness ==
    /\ nObs > 0 /\ obs.phase = "M" /\ config.enable_stack_depth_modes
    /\ config.multi_level_koppa /\ config.koppa_trigger = "ON_PSI"
    /\ config.psi_mode = "MSTEP"
    /\ loc.request_psi /\ ~loc.allow_stack
    /\ Num(pre.upsilon) # 0 /\ Num(pre.beta) # 0
    /\ ~obs.psi_fired /\ obs.tick = 2

\* the Config of config_init: psi is requested on a pair that could be
\* transformed and does not fire
C36_DefaultStarves ==
    /\ nObs > 0 /\ obs.phase = "M" /\ config \in
          { [c EXCEPT !.ticks = config.ticks, !.initial_upsilon = config.initial_upsilon,
                      !.initial_beta = config.initial_beta,
                      !.initial_koppa = config.initial_koppa] : c \in DefaultConfigs }
    /\ loc.request_psi /\ ~obs.psi_fired
    /\ Num(pre.upsilon) # 0 /\ Num(pre.beta) # 0

\* with ON_ALL_MU and multi_level_koppa the gate opens and psi fires
C36_GateOpens ==
    /\ nObs > 0 /\ obs.phase = "M" /\ config.enable_stack_depth_modes
    /\ C36_StackCanGrow /\ obs.psi_fired

\* C37: where koppa_accrue is called in an M microtick, psi_recent is true
\* exactly when psi_fired is, and it is false whenever psi_transform was
\* not called; so with koppa_trigger ON_MU_AFTER_PSI the accrual triggers
\* in no microtick of any run, and koppa and the stack are never touched
\* by the accrual step.
C37_AfterPsiNeverTriggers ==
    /\ (nObs > 0 /\ obs.phase = "M") =>
          /\ loc.accrual_psi_recent <=> obs.psi_fired
          /\ ~(loc.request_psi /\ loc.allow_stack) => ~loc.accrual_psi_recent
    /\ (nObs > 0 /\ config.koppa_trigger = "ON_MU_AFTER_PSI") =>
          /\ ~loc.trigger
          /\ obs.phase \in {"M", "R"} =>
                /\ state.koppa = loc.accrual_koppa
                /\ state.koppa_stack = pre.koppa_stack
                /\ state.koppa_stack_size = 0

\* under ON_MU_AFTER_PSI, an M microtick later than the first one of its
\* tick in which psi is held back (INHIBIT_RHO with rho pending), after
\* upsilon has moved away from epsilon: the accrual does not trigger
C37_Witness ==
    /\ nObs > 0 /\ obs.phase = "M" /\ config.koppa_trigger = "ON_MU_AFTER_PSI"
    /\ obs.microtick > 2 /\ ~obs.psi_fired /\ ~loc.trigger
    /\ Val(pre.upsilon) # Val(pre.epsilon)
    /\ config.psi_mode = "INHIBIT_RHO" /\ pre.rho_pending

\* C38: koppa_stack_size never decreases during a run: a step that emits an
\* observation raises it by one exactly when the accrual triggered with
\* multi_level_koppa on and the size below 4, and every other step leaves
\* it as it is; it is 0 for the whole run when multi_level_koppa is off,
\* and once it is 4 it stays 4.
C38_StackSizeMonotone ==
    /\ [](state.koppa_stack_size \in 0..4)
    /\ [](~config.multi_level_koppa => state.koppa_stack_size = 0)
    /\ [][/\ state'.koppa_stack_size >= state.koppa_stack_size
          /\ state.koppa_stack_size = 4 => state'.koppa_stack_size = 4
          /\ state'.koppa_stack_size = state.koppa_stack_size + 1
                <=> /\ nObs' = nObs + 1 /\ loc'.trigger
                    /\ config.multi_level_koppa /\ state.koppa_stack_size < 4
          /\ state'.koppa_stack_size \in {state.koppa_stack_size,
                                          state.koppa_stack_size + 1}]_vars

\* a triggered accrual on a full stack left the size at 4 and moved the slots
C38_Witness ==
    /\ nObs > 0 /\ loc.trigger /\ config.multi_level_koppa
    /\ pre.koppa_stack_size = 4 /\ state.koppa_stack_size = 4
    /\ state.koppa_stack # pre.koppa_stack

\* C39 as stated: in every observation psi_strength_applied = true implies
\* psi_fired = true.
C39_StrengthImpliesFired ==
    (nObs > 0 /\ state.psi_strength_applied) => obs.psi_fired

\* C39: psi_strength_applied is reported only for an M microtick in which
\* psi_transform ran with a strength above 1, and then with psi_fired = true
\* unless the first transform failed on a zero value: upsilon or beta is
\* zero, or koppa is zero under triple_psi_mode.
C39_StrengthImpliesAttempt ==
    (nObs > 0 /\ state.psi_strength_applied) =>
        /\ obs.phase = "M" /\ loc.request_psi /\ loc.allow_stack
        /\ config.enable_psi_strength_parameter /\ pre.rho_pending
        /\ psi_strength(config, pre) > 1
        /\ ~obs.psi_fired =>
              /\ \/ rational_is_zero(pre.upsilon) \/ rational_is_zero(pre.beta)
                 \/ (config.triple_psi_mode /\ rational_is_zero(pre.koppa))
              /\ state.upsilon = pre.upsilon /\ state.beta = pre.beta
              /\ state.rho_pending /\ ~loc.accrual_psi_recent

\* an M microtick whose transform was asked for with two prime numerators
\* and a zero beta: the flag is reported with psi_fired false
C39_Witness ==
    /\ nObs > 0 /\ obs.phase = "M" /\ ~obs.psi_fired
    /\ state.psi_strength_applied
    /\ rational_is_zero(pre.beta)
    /\ numerator_is_prime(pre.upsilon) /\ numerator_is_prime(pre.koppa)

====
